---- MODULE Spec2Model ----
(***************************************************************************)
(* Governor MCP: the session store, the audit log, the plan controller's   *)
(* plan/step state machine and the tool layer that drives them.            *)
(*                                                                         *)
(* Identifiers are uuid4 strings in the source; a fresh uuid is modelled   *)
(* as the position of the object in its (insertion-ordered) store, and a   *)
(* step id as the pair <<plan id, position in plan.steps>>.                *)
(* A text is the sequence of its characters; "" is <<>>.  An optional      *)
(* value is None (<<>>) or Some(v) (<<v>>).  A timestamp is the value of   *)
(* the clock `now`; NoTime (0) is Python's None for a datetime field.      *)
(* Fields that no operation reads back (names, descriptions, updated_at,   *)
(* executed_at, reasons, audit details) are not part of the state.         *)
(***************************************************************************)
EXTENDS Integers, Sequences, FiniteSets, TLC

\* ---------------------------------------------------------------- bounds
MaxPlans == 1
MaxSteps == 2
MaxAssessments == 1
MaxApprovals == 1
MaxAudit == 4
MaxClock == 2
\* entries logged next to a plan's life (LogSpec)
MaxLogged == 2
\* approvals stored directly in the session (ApprovalSpec)
MaxStored == 3

VARIABLES
    assessments,  \* SessionManager._assessments
    plans,        \* SessionManager._plans
    approvals,    \* SessionManager._approvals
    entries,      \* AuditLogger._entries
    now,          \* the value datetime.now() returns
    last,         \* the last call: operation, arguments, what it returned
    calls         \* the complete_step calls that run sub-step by sub-step

vars == <<assessments, plans, approvals, entries, now, last, calls>>

\* ------------------------------------------------------------ data model
None == <<>>
Some(v) == <<v>>
NoTime == 0

RiskLevel == {"low", "medium", "high"}

StepStatus ==
    {"pending", "approved", "denied", "executing", "completed", "failed", "skipped"}

PlanStatus ==
    {"draft", "awaiting_approval", "in_progress", "completed", "aborted", "failed"}

PlanStep(order, operation, expected_outcome, rollback_action) ==
    [order |-> order,
     operation |-> operation,
     expected_outcome |-> expected_outcome,
     rollback_action |-> rollback_action,
     status |-> "pending",
     result |-> None,
     error |-> None]

Plan(assessment_id, steps) ==
    [assessment_id |-> assessment_id,
     steps |-> steps,
     status |-> "draft",
     current_step_index |-> 0,
     completed_at |-> NoTime]

Approval(target_type, target_id, approved) ==
    [target_type |-> target_type,
     target_id |-> target_id,
     approved |-> approved,
     timestamp |-> now]

\* The record of a call: ret is "ok", "none" (the not-found sentinel: None, or
\* (None, None)) or "error" (a raised exception, or the tool's {"error": ...}).
\* arg tells the variants of one tool apart ("skip", "approve", "deny", ...).
\* text is the result or error text the caller passed, if any; args are further
\* arguments; out is what the call returned besides ret (<<>> when the model
\* does not keep it).
ToolCall(op, arg, pid, sid, ret) ==
    [op |-> op, pid |-> pid, sid |-> sid, ret |-> ret, arg |-> arg, text |-> <<>>,
     args |-> <<>>, out |-> <<>>]
Call(op, pid, sid, ret) == ToolCall(op, "", pid, sid, ret)
TextCall(op, pid, sid, ret, text) == [Call(op, pid, sid, ret) EXCEPT !.text = text]
OutCall(op, pid, sid, ret, out) == [Call(op, pid, sid, ret) EXCEPT !.out = out]

\* The target_id of an approval or the id of a plan or assessment, n, where a
\* step id may stand as well.
TargetId(n) == <<n, 0>>

NoStep == <<0, 0>>

\* ------------------------------------------------------------------ text
\* A str is the sequence of its characters.
LowerLetters ==
    {"a", "b", "c", "d", "e", "f", "g", "h", "i", "j", "k", "l", "m",
     "n", "o", "p", "q", "r", "s", "t", "u", "v", "w", "x", "y", "z"}
DigitChars == {"0", "1", "2", "3", "4", "5", "6", "7", "8", "9"}
SpaceChars == {" ", "\t", "\n"}
UpperToLower ==
    [c \in {"A", "B", "C", "D", "E", "F", "G", "H", "I", "J", "K", "L", "M",
            "N", "O", "P", "Q", "R", "S", "T", "U", "V", "W", "X", "Y", "Z"} |->
        CASE c = "A" -> "a" [] c = "B" -> "b" [] c = "C" -> "c" [] c = "D" -> "d"
          [] c = "E" -> "e" [] c = "F" -> "f" [] c = "G" -> "g" [] c = "H" -> "h"
          [] c = "I" -> "i" [] c = "J" -> "j" [] c = "K" -> "k" [] c = "L" -> "l"
          [] c = "M" -> "m" [] c = "N" -> "n" [] c = "O" -> "o" [] c = "P" -> "p"
          [] c = "Q" -> "q" [] c = "R" -> "r" [] c = "S" -> "s" [] c = "T" -> "t"
          [] c = "U" -> "u" [] c = "V" -> "v" [] c = "W" -> "w" [] c = "X" -> "x"
          [] c = "Y" -> "y" [] c = "Z" -> "z"]
\* \w under re.IGNORECASE, on lower-cased characters
WordChars == LowerLetters \cup DigitChars \cup {"_"}

LowerChar(c) == IF c \in DOMAIN UpperToLower THEN UpperToLower[c] ELSE c

\* str.lower()
Lower(text) == [i \in DOMAIN text |-> LowerChar(text[i])]

\* `sub in text`
Contains(text, sub) ==
    \E i \in 0 .. Len(text) - Len(sub) :
        \A j \in 1 .. Len(sub) : text[i + j] = sub[j]

\* any(kw in text for kw in keywords)
ContainsAny(text, keywords) == \E kw \in keywords : Contains(text, kw)

\* f"{a} {b}"
Join(a, b) == a \o <<" ">> \o b

\* str.strip()
RECURSIVE LStrip(_)
LStrip(text) ==
    IF text # <<>> /\ Head(text) \in SpaceChars THEN LStrip(Tail(text)) ELSE text
RECURSIVE RStrip(_)
RStrip(text) ==
    IF text # <<>> /\ text[Len(text)] \in SpaceChars
    THEN RStrip(SubSeq(text, 1, Len(text) - 1))
    ELSE text
Strip(text) == RStrip(LStrip(text))

\* ------------------------------------------------- regular expressions (re)
\* The patterns of patterns.py as syntax trees; every pattern is compiled with
\* re.IGNORECASE, so literals are kept lower-cased and compared with the
\* lower-cased character.
Unbounded == -1
Lit(c) == [t |-> "str", s |-> <<c>>]
Str(s) == [t |-> "str", s |-> s]
AnyChar == [t |-> "any"]
In(set, negate) == [t |-> "in", set |-> set, negate |-> negate]
Cat(rs) == [t |-> "cat", rs |-> rs]
Alt(rs) == [t |-> "alt", rs |-> rs]
Rep(r, min, max) == [t |-> "rep", r |-> r, min |-> min, max |-> max]
WordBoundary == [t |-> "wb"]
AtEnd == [t |-> "end"]

IsWordAt(text, i) == i \in DOMAIN text /\ LowerChar(text[i]) \in WordChars

RECURSIVE Ends(_, _, _)
RECURSIVE CatEnds(_, _, _, _)
RECURSIVE StarEnds(_, _, _, _)

\* The positions (0 .. Len(text)) at which a match of r that starts at a
\* position of P can end.
Ends(r, text, P) ==
    IF P = {} THEN {}
    ELSE CASE r.t = "str" ->
               { p + Len(r.s) : p \in
                   { q \in P : /\ q + Len(r.s) <= Len(text)
                               /\ \A j \in 1 .. Len(r.s) : LowerChar(text[q + j]) = r.s[j] } }
           [] r.t = "any" ->
               { p + 1 : p \in { q \in P : q < Len(text) /\ text[q + 1] # "\n" } }
           [] r.t = "in" ->
               { p + 1 : p \in
                   { q \in P : q < Len(text)
                               /\ ((LowerChar(text[q + 1]) \in r.set) # r.negate) } }
           [] r.t = "cat" -> CatEnds(r.rs, 1, text, P)
           [] r.t = "alt" -> UNION { Ends(r.rs[i], text, P) : i \in DOMAIN r.rs }
           [] r.t = "rep" ->
               LET once == Ends(r.r, text, P)
                   base == IF r.min = 0 THEN P \cup once ELSE once
               IN  IF r.max = Unbounded THEN StarEnds(r.r, text, base, once) ELSE base
           [] r.t = "wb" -> { p \in P : IsWordAt(text, p) # IsWordAt(text, p + 1) }
           [] r.t = "end" ->
               { p \in P : \/ p = Len(text)
                           \/ p = Len(text) - 1 /\ text[Len(text)] = "\n" }

CatEnds(rs, i, text, P) ==
    IF i > Len(rs) THEN P ELSE CatEnds(rs, i + 1, text, Ends(rs[i], text, P))

StarEnds(r, text, acc, frontier) ==
    LET more == Ends(r, text, frontier) \ acc
    IN  IF more = {} THEN acc ELSE StarEnds(r, text, acc \cup more, more)

\* pattern.search(text)
Search(r, text) == Ends(r, text, 0 .. Len(text)) # {}

SENSITIVE_FILE_PATTERNS ==
    <<
      Cat(<<Str(<<".", "e", "n", "v">>), Alt(<<AtEnd, Cat(<<Str(<<".">>), Rep(AnyChar, 0, Unbounded)>>)>>)>>),
      Str(<<".", "e", "n", "v", ".", "l", "o", "c", "a", "l">>),
      Str(<<".", "e", "n", "v", ".", "p", "r", "o", "d", "u", "c", "t", "i", "o", "n">>),
      Cat(<<Str(<<"s", "e", "c", "r", "e", "t">>), Rep(Str(<<"s">>), 0, 1), Str(<<".">>), Alt(<<Cat(<<Str(<<"y">>), Rep(Str(<<"a">>), 0, 1), Str(<<"m", "l">>)>>), Str(<<"j", "s", "o", "n">>), Str(<<"t", "o", "m", "l">>)>>)>>),
      Cat(<<Str(<<"c", "r", "e", "d", "e", "n", "t", "i", "a", "l">>), Rep(Str(<<"s">>), 0, 1), Str(<<".">>), Alt(<<Cat(<<Str(<<"y">>), Rep(Str(<<"a">>), 0, 1), Str(<<"m", "l">>)>>), Str(<<"j", "s", "o", "n">>), Str(<<"t", "o", "m", "l">>)>>)>>),
      Cat(<<Str(<<"c", "o", "n", "f", "i", "g", ".", "p", "r", "o", "d">>), Rep(Str(<<"u", "c", "t", "i", "o", "n">>), 0, 1), Str(<<".">>), Alt(<<Cat(<<Str(<<"y">>), Rep(Str(<<"a">>), 0, 1), Str(<<"m", "l">>)>>), Str(<<"j", "s", "o", "n">>), Str(<<"t", "o", "m", "l">>)>>)>>),
      Cat(<<Rep(AnyChar, 0, Unbounded), Str(<<".", "p", "e", "m">>), AtEnd>>),
      Cat(<<Rep(AnyChar, 0, Unbounded), Str(<<".", "k", "e", "y">>), AtEnd>>),
      Cat(<<Rep(AnyChar, 0, Unbounded), Str(<<".", "p", "1", "2">>), AtEnd>>),
      Cat(<<Rep(AnyChar, 0, Unbounded), Str(<<".", "p", "f", "x">>), AtEnd>>),
      Cat(<<Str(<<"i", "d", "_", "r", "s", "a">>), Rep(AnyChar, 0, Unbounded)>>),
      Cat(<<Str(<<"i", "d", "_", "e", "d", "2", "5", "5", "1", "9">>), Rep(AnyChar, 0, Unbounded)>>),
      Cat(<<Rep(AnyChar, 0, Unbounded), Str(<<"_", "r", "s", "a">>), AtEnd>>),
      Str(<<".", "a", "w", "s", "/", "c", "r", "e", "d", "e", "n", "t", "i", "a", "l", "s">>),
      Str(<<".", "a", "w", "s", "/", "c", "o", "n", "f", "i", "g">>),
      Cat(<<Str(<<"g", "c", "l", "o", "u", "d">>), Rep(AnyChar, 0, Unbounded), Str(<<".", "j", "s", "o", "n">>)>>),
      Cat(<<Str(<<"s", "e", "r", "v", "i", "c", "e">>), Rep(In({"-", "_"}, FALSE), 0, 1), Str(<<"a", "c", "c", "o", "u", "n", "t">>), Rep(AnyChar, 0, Unbounded), Str(<<".", "j", "s", "o", "n">>)>>),
      Cat(<<Rep(AnyChar, 0, Unbounded), Str(<<"p", "a", "s", "s", "w", "o", "r", "d">>), Rep(AnyChar, 0, Unbounded)>>),
      Cat(<<Rep(AnyChar, 0, Unbounded), Str(<<"t", "o", "k", "e", "n">>), Rep(AnyChar, 0, Unbounded), Str(<<".", "t", "x", "t">>)>>),
      Str(<<".", "n", "e", "t", "r", "c">>),
      Str(<<".", "n", "p", "m", "r", "c">>),
      Str(<<".", "p", "y", "p", "i", "r", "c">>),
      Cat(<<Str(<<"d", "a", "t", "a", "b", "a", "s", "e", ".", "y">>), Rep(Str(<<"a">>), 0, 1), Str(<<"m", "l">>)>>),
      Cat(<<Str(<<"d", "b", ".", "c", "o", "n", "f", "i", "g", ".">>), Alt(<<Str(<<"j", "s">>), Str(<<"t", "s">>), Str(<<"j", "s", "o", "n">>)>>)>>),
      Cat(<<Rep(AnyChar, 0, Unbounded), Str(<<"s", "e", "c", "r", "e", "t">>), Rep(AnyChar, 0, Unbounded), Str(<<".", "y">>), Rep(Str(<<"a">>), 0, 1), Str(<<"m", "l">>)>>) >>

DATABASE_PATTERNS ==
    <<
      Cat(<<Rep(AnyChar, 0, Unbounded), Str(<<".", "s", "q", "l">>), AtEnd>>),
      Cat(<<Rep(AnyChar, 0, Unbounded), Str(<<".", "d", "b">>), AtEnd>>),
      Cat(<<Rep(AnyChar, 0, Unbounded), Str(<<".", "s", "q", "l", "i", "t", "e">>), Rep(Str(<<"3">>), 0, 1), AtEnd>>),
      Cat(<<Rep(AnyChar, 0, Unbounded), Str(<<".", "m", "d", "b">>), AtEnd>>),
      Cat(<<Alt(<<Str(<<"p", "o", "s", "t", "g", "r", "e", "s">>), Str(<<"p", "o", "s", "t", "g", "r", "e", "s", "q", "l">>), Str(<<"m", "y", "s", "q", "l">>), Str(<<"m", "o", "n", "g", "o", "d", "b">>), Str(<<"r", "e", "d", "i", "s">>), Str(<<"s", "q", "l", "i", "t", "e">>)>>), Str(<<":", "/", "/">>)>>),
      Cat(<<Alt(<<Str(<<"d", "r", "o", "p">>), Str(<<"t", "r", "u", "n", "c", "a", "t", "e">>), Str(<<"a", "l", "t", "e", "r">>)>>), Rep(In(SpaceChars, FALSE), 1, Unbounded), Alt(<<Str(<<"t", "a", "b", "l", "e">>), Str(<<"d", "a", "t", "a", "b", "a", "s", "e">>), Str(<<"s", "c", "h", "e", "m", "a">>)>>)>>),
      Cat(<<Str(<<"d", "e", "l", "e", "t", "e">>), Rep(In(SpaceChars, FALSE), 1, Unbounded), Str(<<"f", "r", "o", "m">>), Rep(In(SpaceChars, FALSE), 1, Unbounded), Rep(In(WordChars, FALSE), 1, Unbounded)>>),
      Cat(<<Alt(<<Str(<<"i", "n", "s", "e", "r", "t">>), Str(<<"u", "p", "d", "a", "t", "e">>)>>), Rep(In(SpaceChars, FALSE), 1, Unbounded), Str(<<"i", "n", "t", "o">>)>>),
      Cat(<<Str(<<"s", "e", "l", "e", "c", "t">>), Rep(In(SpaceChars, FALSE), 1, Unbounded), Rep(AnyChar, 0, Unbounded), Rep(In(SpaceChars, FALSE), 1, Unbounded), Str(<<"f", "r", "o", "m">>), Rep(In(SpaceChars, FALSE), 1, Unbounded), Rep(In(WordChars, FALSE), 1, Unbounded)>>),
      Cat(<<Str(<<"m", "i", "g", "r", "a", "t", "i", "o", "n">>), Rep(Str(<<"s">>), 0, 1), Str(<<"/">>), Rep(AnyChar, 0, Unbounded), Str(<<".">>), Alt(<<Str(<<"s", "q", "l">>), Str(<<"p", "y">>), Str(<<"r", "b">>), Str(<<"j", "s">>), Str(<<"t", "s">>)>>)>>),
      Cat(<<Rep(AnyChar, 0, Unbounded), Str(<<"m", "i", "g", "r", "a", "t", "i", "o", "n">>), Rep(AnyChar, 0, Unbounded), Str(<<".">>), Alt(<<Str(<<"s", "q", "l">>), Str(<<"p", "y">>), Str(<<"r", "b">>), Str(<<"j", "s">>), Str(<<"t", "s">>)>>)>>) >>

API_PATTERNS ==
    <<
      Cat(<<Alt(<<Str(<<"g", "e", "t">>), Str(<<"p", "o", "s", "t">>), Str(<<"p", "u", "t">>), Str(<<"d", "e", "l", "e", "t", "e">>), Str(<<"p", "a", "t", "c", "h">>)>>), Rep(In(SpaceChars, FALSE), 1, Unbounded), Str(<<"h", "t", "t", "p">>), Rep(Str(<<"s">>), 0, 1), Str(<<":", "/", "/">>)>>),
      Cat(<<Str(<<"f", "e", "t", "c", "h">>), Rep(In(SpaceChars, FALSE), 0, Unbounded), Str(<<"(">>), Rep(In(SpaceChars, FALSE), 0, Unbounded), In({"'", "\""}, FALSE), Str(<<"h", "t", "t", "p">>), Rep(Str(<<"s">>), 0, 1), Str(<<":", "/", "/">>)>>),
      Cat(<<Str(<<"a", "x", "i", "o", "s", ".">>), Alt(<<Str(<<"g", "e", "t">>), Str(<<"p", "o", "s", "t">>), Str(<<"p", "u", "t">>), Str(<<"d", "e", "l", "e", "t", "e">>), Str(<<"p", "a", "t", "c", "h">>)>>)>>),
      Cat(<<Str(<<"r", "e", "q", "u", "e", "s", "t">>), Rep(Str(<<"s">>), 0, 1), Str(<<".">>), Alt(<<Str(<<"g", "e", "t">>), Str(<<"p", "o", "s", "t">>), Str(<<"p", "u", "t">>), Str(<<"d", "e", "l", "e", "t", "e">>), Str(<<"p", "a", "t", "c", "h">>)>>)>>),
      Str(<<"h", "t", "t", "p", ".", "r", "e", "q", "u", "e", "s", "t">>),
      Cat(<<Str(<<"c", "u", "r", "l">>), Rep(In(SpaceChars, FALSE), 1, Unbounded)>>),
      Cat(<<Str(<<"/", "a", "p", "i", "/", "v">>), Rep(In(DigitChars, FALSE), 1, Unbounded), Str(<<"/">>)>>),
      Cat(<<Str(<<"a", "p", "i", ".">>), Rep(AnyChar, 0, Unbounded), Str(<<".", "c", "o", "m">>)>>),
      Str(<<"g", "r", "a", "p", "h", "q", "l">>),
      Str(<<"w", "e", "b", "h", "o", "o", "k">>) >>

SYSTEM_COMMAND_PATTERNS ==
    <<
      Cat(<<WordBoundary, Str(<<"r", "m">>), Rep(In(SpaceChars, FALSE), 1, Unbounded), Str(<<"-", "r">>), Rep(Str(<<"f">>), 0, 1), WordBoundary>>),
      Cat(<<WordBoundary, Str(<<"r", "m", "d", "i", "r">>), WordBoundary>>),
      Cat(<<WordBoundary, Str(<<"d", "e", "l">>), Rep(In(SpaceChars, FALSE), 1, Unbounded), Str(<<"/">>), In({"s", "f", "q"}, FALSE)>>),
      Cat(<<WordBoundary, Str(<<"c", "h", "m", "o", "d">>), WordBoundary>>),
      Cat(<<WordBoundary, Str(<<"c", "h", "o", "w", "n">>), WordBoundary>>),
      Cat(<<WordBoundary, Str(<<"s", "u", "d", "o">>), WordBoundary>>),
      Cat(<<WordBoundary, Str(<<"s", "u">>), Rep(In(SpaceChars, FALSE), 1, Unbounded), Str(<<"-">>)>>),
      Cat(<<WordBoundary, Alt(<<Str(<<"a", "p", "t">>), Str(<<"y", "u", "m">>), Str(<<"d", "n", "f">>), Str(<<"p", "a", "c", "m", "a", "n">>), Str(<<"b", "r", "e", "w">>)>>), Rep(In(SpaceChars, FALSE), 1, Unbounded), Alt(<<Str(<<"i", "n", "s", "t", "a", "l", "l">>), Str(<<"r", "e", "m", "o", "v", "e">>), Str(<<"p", "u", "r", "g", "e">>)>>)>>),
      Cat(<<WordBoundary, Str(<<"p", "i", "p">>), Rep(In(SpaceChars, FALSE), 1, Unbounded), Str(<<"i", "n", "s", "t", "a", "l", "l">>), WordBoundary>>),
      Cat(<<WordBoundary, Str(<<"n", "p", "m">>), Rep(In(SpaceChars, FALSE), 1, Unbounded), Alt(<<Str(<<"i", "n", "s", "t", "a", "l", "l">>), Str(<<"u", "n", "i", "n", "s", "t", "a", "l", "l">>)>>), Rep(In(SpaceChars, FALSE), 1, Unbounded), Str(<<"-", "g">>)>>),
      Cat(<<WordBoundary, Str(<<"k", "i", "l", "l">>), Rep(In(SpaceChars, FALSE), 1, Unbounded), Str(<<"-">>), Rep(Str(<<"9">>), 0, 1), WordBoundary>>),
      Cat(<<WordBoundary, Str(<<"k", "i", "l", "l", "a", "l", "l">>), WordBoundary>>),
      Cat(<<WordBoundary, Str(<<"s", "y", "s", "t", "e", "m", "c", "t", "l">>), Rep(In(SpaceChars, FALSE), 1, Unbounded), Alt(<<Str(<<"s", "t", "o", "p">>), Str(<<"r", "e", "s", "t", "a", "r", "t">>), Str(<<"d", "i", "s", "a", "b", "l", "e">>)>>)>>),
      Cat(<<WordBoundary, Str(<<"i", "p", "t", "a", "b", "l", "e", "s">>), WordBoundary>>),
      Cat(<<WordBoundary, Str(<<"n", "e", "t", "s", "t", "a", "t">>), WordBoundary>>),
      Cat(<<WordBoundary, Str(<<"s", "s", "h">>), WordBoundary, Rep(AnyChar, 0, Unbounded), Str(<<"@">>)>>) >>

READ_ONLY_PATTERNS ==
    <<
      Cat(<<WordBoundary, Str(<<"c", "a", "t">>), Rep(In(SpaceChars, FALSE), 1, Unbounded)>>),
      Cat(<<WordBoundary, Str(<<"l", "e", "s", "s">>), Rep(In(SpaceChars, FALSE), 1, Unbounded)>>),
      Cat(<<WordBoundary, Str(<<"h", "e", "a", "d">>), Rep(In(SpaceChars, FALSE), 1, Unbounded)>>),
      Cat(<<WordBoundary, Str(<<"t", "a", "i", "l">>), Rep(In(SpaceChars, FALSE), 1, Unbounded)>>),
      Cat(<<WordBoundary, Str(<<"g", "r", "e", "p">>), Rep(In(SpaceChars, FALSE), 1, Unbounded)>>),
      Cat(<<WordBoundary, Str(<<"f", "i", "n", "d">>), Rep(In(SpaceChars, FALSE), 1, Unbounded)>>),
      Cat(<<WordBoundary, Str(<<"l", "s">>), Rep(In(SpaceChars, FALSE), 1, Unbounded)>>),
      Cat(<<WordBoundary, Str(<<"p", "w", "d">>), WordBoundary>>),
      Cat(<<WordBoundary, Str(<<"w", "h", "o", "a", "m", "i">>), WordBoundary>>),
      Cat(<<Str(<<"s", "e", "l", "e", "c", "t">>), Rep(In(SpaceChars, FALSE), 1, Unbounded), Rep(AnyChar, 0, Unbounded), Rep(In(SpaceChars, FALSE), 1, Unbounded), Str(<<"f", "r", "o", "m">>)>>),
      Str(<<".", "r", "e", "a", "d", "(">>),
      Cat(<<Str(<<"o", "p", "e", "n", "(">>), Rep(AnyChar, 0, Unbounded), Str(<<",">>), Rep(In(SpaceChars, FALSE), 0, Unbounded), In({"'", "\""}, FALSE), Str(<<"r">>), In({"'", "\""}, FALSE)>>) >>

\* matches_any_pattern(text, patterns)
matches_any_pattern(text, patterns) ==
    \E i \in DOMAIN patterns : Search(patterns[i], text)

READ_KEYWORDS ==
    { <<"r", "e", "a", "d">>, <<"g", "e", "t">>, <<"f", "e", "t", "c", "h">>,
      <<"r", "e", "t", "r", "i", "e", "v", "e">>, <<"v", "i", "e", "w">>, <<"s", "h", "o", "w">>,
      <<"d", "i", "s", "p", "l", "a", "y">>, <<"l", "i", "s", "t">>, <<"f", "i", "n", "d">>,
      <<"s", "e", "a", "r", "c", "h">>, <<"q", "u", "e", "r", "y">>,
      <<"s", "e", "l", "e", "c", "t">>, <<"l", "o", "o", "k">>, <<"c", "h", "e", "c", "k">>,
      <<"i", "n", "s", "p", "e", "c", "t">>, <<"e", "x", "a", "m", "i", "n", "e">>,
      <<"b", "r", "o", "w", "s", "e">>, <<"s", "c", "a", "n">>, <<"c", "a", "t">>,
      <<"h", "e", "a", "d">>, <<"t", "a", "i", "l">>, <<"g", "r", "e", "p">>, <<"l", "s">>,
      <<"d", "i", "r">>, <<"p", "r", "i", "n", "t">>, <<"e", "c", "h", "o">>,
      <<"d", "e", "s", "c", "r", "i", "b", "e">>, <<"s", "t", "a", "t", "u", "s">> }

WRITE_KEYWORDS ==
    { <<"w", "r", "i", "t", "e">>, <<"c", "r", "e", "a", "t", "e">>, <<"a", "d", "d">>,
      <<"i", "n", "s", "e", "r", "t">>, <<"u", "p", "d", "a", "t", "e">>,
      <<"m", "o", "d", "i", "f", "y">>, <<"c", "h", "a", "n", "g", "e">>, <<"e", "d", "i", "t">>,
      <<"s", "e", "t">>, <<"p", "u", "t">>, <<"p", "o", "s", "t">>, <<"p", "a", "t", "c", "h">>,
      <<"s", "a", "v", "e">>, <<"s", "t", "o", "r", "e">>, <<"u", "p", "l", "o", "a", "d">>,
      <<"a", "p", "p", "e", "n", "d">>, <<"r", "e", "p", "l", "a", "c", "e">>,
      <<"o", "v", "e", "r", "w", "r", "i", "t", "e">>, <<"t", "o", "u", "c", "h">>,
      <<"m", "k", "d", "i", "r">>, <<"i", "n", "s", "t", "a", "l", "l">>,
      <<"c", "o", "n", "f", "i", "g", "u", "r", "e">>, <<"e", "n", "a", "b", "l", "e">>,
      <<"i", "n", "i", "t">>, <<"g", "e", "n", "e", "r", "a", "t", "e">>,
      <<"b", "u", "i", "l", "d">>, <<"c", "o", "m", "p", "i", "l", "e">> }

DELETE_KEYWORDS ==
    { <<"d", "e", "l", "e", "t", "e">>, <<"r", "e", "m", "o", "v", "e">>, <<"d", "r", "o", "p">>,
      <<"t", "r", "u", "n", "c", "a", "t", "e">>, <<"c", "l", "e", "a", "r">>,
      <<"p", "u", "r", "g", "e">>, <<"c", "l", "e", "a", "n">>,
      <<"u", "n", "i", "n", "s", "t", "a", "l", "l">>, <<"d", "e", "s", "t", "r", "o", "y">>,
      <<"e", "r", "a", "s", "e">>, <<"w", "i", "p", "e">>, <<"r", "m">>,
      <<"r", "m", "d", "i", "r">>, <<"d", "e", "l">>, <<"u", "n", "l", "i", "n", "k">>,
      <<"r", "e", "s", "e", "t">>, <<"r", "e", "v", "o", "k", "e">>,
      <<"d", "i", "s", "a", "b", "l", "e">>, <<"e", "x", "p", "i", "r", "e">>,
      <<"i", "n", "v", "a", "l", "i", "d", "a", "t", "e">> }

EXECUTE_KEYWORDS ==
    { <<"e", "x", "e", "c", "u", "t", "e">>, <<"r", "u", "n">>, <<"s", "t", "a", "r", "t">>,
      <<"l", "a", "u", "n", "c", "h">>, <<"i", "n", "v", "o", "k", "e">>, <<"c", "a", "l", "l">>,
      <<"t", "r", "i", "g", "g", "e", "r">>, <<"d", "e", "p", "l", "o", "y">>,
      <<"a", "p", "p", "l", "y">>, <<"m", "i", "g", "r", "a", "t", "e">>, <<"p", "u", "s", "h">>,
      <<"p", "u", "b", "l", "i", "s", "h">>, <<"r", "e", "l", "e", "a", "s", "e">>,
      <<"s", "h", "i", "p">>, <<"s", "u", "d", "o">>, <<"e", "x", "e", "c">>,
      <<"s", "p", "a", "w", "n">>, <<"f", "o", "r", "k">>, <<"e", "v", "a", "l">>,
      <<"s", "c", "r", "i", "p", "t">>, <<"c", "o", "m", "m", "a", "n", "d">>,
      <<"r", "e", "s", "t", "a", "r", "t">>, <<"r", "e", "b", "o", "o", "t">>,
      <<"s", "h", "u", "t", "d", "o", "w", "n">>, <<"k", "i", "l", "l">>, <<"s", "t", "o", "p">>,
      <<"t", "e", "r", "m", "i", "n", "a", "t", "e">> }

SINGLE_KEYWORDS ==
    { <<"a">>, <<"a", "n">>, <<"o", "n", "e">>, <<"s", "i", "n", "g", "l", "e">>,
      <<"t", "h", "i", "s">>, <<"t", "h", "a", "t">>, <<"t", "h", "e">>,
      <<"s", "p", "e", "c", "i", "f", "i", "c">> }

MULTIPLE_KEYWORDS ==
    { <<"m", "u", "l", "t", "i", "p", "l", "e">>, <<"s", "e", "v", "e", "r", "a", "l">>,
      <<"s", "o", "m", "e">>, <<"f", "e", "w">>, <<"m", "a", "n", "y">>,
      <<"t", "h", "e", "s", "e">>, <<"t", "h", "o", "s", "e">>, <<"b", "a", "t", "c", "h">>,
      <<"g", "r", "o", "u", "p">>, <<"s", "e", "t">>, <<"l", "i", "s", "t">>,
      <<"a", "r", "r", "a", "y">> }

COLLECTION_KEYWORDS ==
    { <<"a", "l", "l">>, <<"e", "v", "e", "r", "y">>, <<"e", "a", "c", "h">>,
      <<"e", "n", "t", "i", "r", "e">>, <<"w", "h", "o", "l", "e">>,
      <<"c", "o", "m", "p", "l", "e", "t", "e">>, <<"f", "u", "l", "l">>,
      <<"c", "o", "l", "l", "e", "c", "t", "i", "o", "n">>, <<"t", "a", "b", "l", "e">>,
      <<"d", "i", "r", "e", "c", "t", "o", "r", "y">>, <<"f", "o", "l", "d", "e", "r">>,
      <<"r", "e", "p", "o", "s", "i", "t", "o", "r", "y">>,
      <<"d", "a", "t", "a", "b", "a", "s", "e">>, <<"s", "c", "h", "e", "m", "a">>,
      <<"n", "a", "m", "e", "s", "p", "a", "c", "e">>, <<"b", "u", "c", "k", "e", "t">>,
      <<"q", "u", "e", "u", "e">> }

SYSTEM_KEYWORDS ==
    { <<"s", "y", "s", "t", "e", "m">>, <<"g", "l", "o", "b", "a", "l">>,
      <<"s", "e", "r", "v", "e", "r">>, <<"c", "l", "u", "s", "t", "e", "r">>,
      <<"i", "n", "f", "r", "a", "s", "t", "r", "u", "c", "t", "u", "r", "e">>,
      <<"e", "n", "v", "i", "r", "o", "n", "m", "e", "n", "t">>,
      <<"p", "r", "o", "d", "u", "c", "t", "i", "o", "n">>,
      <<"s", "t", "a", "g", "i", "n", "g">>, <<"n", "e", "t", "w", "o", "r", "k">>,
      <<"s", "e", "r", "v", "i", "c", "e">>, <<"p", "l", "a", "t", "f", "o", "r", "m">>,
      <<"o", "r", "g", "a", "n", "i", "z", "a", "t", "i", "o", "n">>,
      <<"a", "c", "c", "o", "u", "n", "t">>, <<"r", "o", "o", "t">>, <<"a", "d", "m", "i", "n">> }

file_indicators ==
    { <<".", "t", "x", "t">>, <<".", "j", "s", "o", "n">>, <<".", "y", "a", "m", "l">>,
      <<".", "y", "m", "l">>, <<".", "x", "m", "l">>, <<".", "c", "s", "v">>, <<".", "p", "y">>,
      <<".", "j", "s">>, <<".", "t", "s">>, <<".", "j", "a", "v", "a">>, <<".", "g", "o">>,
      <<".", "r", "s">>, <<".", "r", "b">>, <<".", "m", "d">>, <<".", "h", "t", "m", "l">>,
      <<".", "c", "s", "s">>, <<".", "s", "h">>, <<".", "b", "a", "s", "h">>, <<"/">>, <<"\\">>,
      <<"p", "a", "t", "h">>, <<"f", "i", "l", "e">>,
      <<"d", "i", "r", "e", "c", "t", "o", "r", "y">>, <<"f", "o", "l", "d", "e", "r">>,
      <<"r", "e", "a", "d">>, <<"w", "r", "i", "t", "e">>, <<"s", "a", "v", "e">>,
      <<"l", "o", "a", "d">>, <<"o", "p", "e", "n">>, <<"c", "r", "e", "a", "t", "e">>,
      <<"d", "e", "l", "e", "t", "e">>, <<"r", "e", "m", "o", "v", "e">>, <<"c", "o", "p", "y">>,
      <<"m", "o", "v", "e">>, <<"r", "e", "n", "a", "m", "e">> }

error_indicators ==
    { <<"e", "r", "r", "o", "r">>, <<"f", "a", "i", "l", "e", "d">>,
      <<"e", "x", "c", "e", "p", "t", "i", "o", "n">>,
      <<"t", "r", "a", "c", "e", "b", "a", "c", "k">>, <<"d", "e", "n", "i", "e", "d">>,
      <<"f", "o", "r", "b", "i", "d", "d", "e", "n">>,
      <<"u", "n", "a", "u", "t", "h", "o", "r", "i", "z", "e", "d">>,
      <<"t", "i", "m", "e", "o", "u", "t">>, <<"n", "o", "t", " ", "f", "o", "u", "n", "d">>,
      <<"d", "o", "e", "s", " ", "n", "o", "t", " ", "e", "x", "i", "s", "t">>,
      <<"c", "a", "n", "n", "o", "t">>, <<"u", "n", "a", "b", "l", "e">> }

success_indicators ==
    { <<"s", "u", "c", "c", "e", "s", "s">>, <<"c", "o", "m", "p", "l", "e", "t", "e", "d">>,
      <<"d", "o", "n", "e">>, <<"c", "r", "e", "a", "t", "e", "d">>,
      <<"u", "p", "d", "a", "t", "e", "d">>, <<"d", "e", "l", "e", "t", "e", "d">>, <<"o", "k">>,
      <<"p", "a", "s", "s", "e", "d">> }


\* ----------------------------------------------------- ResourceClassifier
RESOURCE_RISK_SCORES ==
    [memory |-> 0, local_file |-> 1, external_api |-> 2,
     sensitive_file |-> 3, database |-> 4, system_command |-> 5]

_is_file_operation(text) == ContainsAny(Lower(text), file_indicators)

\* Variant: a classify that tries the file heuristic before the database rules.
ClassifyFileBeforeDatabase(operation, context) ==
    LET combined == Strip(Join(operation, context))
        type == IF matches_any_pattern(combined, SYSTEM_COMMAND_PATTERNS) THEN "system_command"
                ELSE IF _is_file_operation(combined) THEN "local_file"
                ELSE IF matches_any_pattern(combined, DATABASE_PATTERNS) THEN "database"
                ELSE IF matches_any_pattern(combined, SENSITIVE_FILE_PATTERNS) THEN "sensitive_file"
                ELSE IF matches_any_pattern(combined, API_PATTERNS) THEN "external_api"
                ELSE "memory"
    IN  <<type, RESOURCE_RISK_SCORES[type]>>

\* ResourceClassifier.classify: <<resource type, base risk score>>
classify(operation, context) ==
    LET combined == Strip(Join(operation, context))
        type == IF matches_any_pattern(combined, SYSTEM_COMMAND_PATTERNS) THEN "system_command"
                ELSE IF matches_any_pattern(combined, DATABASE_PATTERNS) THEN "database"
                ELSE IF matches_any_pattern(combined, SENSITIVE_FILE_PATTERNS) THEN "sensitive_file"
                ELSE IF matches_any_pattern(combined, API_PATTERNS) THEN "external_api"
                ELSE IF _is_file_operation(combined) THEN "local_file"
                ELSE "memory"
    IN  <<type, RESOURCE_RISK_SCORES[type]>>

\* ------------------------------------------------------- ActionClassifier
\* Multipliers are kept in halves (0.5 is 1, 1.5 is 3, ...), so that a risk
\* score, the product of a base score and two multipliers, is kept in quarters.
ACTION_MULTIPLIERS == [read |-> 1, write |-> 3, delete |-> 5, execute |-> 6]
SCOPE_MULTIPLIERS == [single |-> 2, multiple |-> 3, collection |-> 4, system |-> 6]

\* Variant: a classify_action that looks for the delete keywords before the
\* execute keywords.
ClassifyActionDeleteFirst(operation) ==
    LET operation_lower == Lower(operation)
        type == IF matches_any_pattern(operation, READ_ONLY_PATTERNS) THEN "read"
                ELSE IF ContainsAny(operation_lower, DELETE_KEYWORDS) THEN "delete"
                ELSE IF ContainsAny(operation_lower, EXECUTE_KEYWORDS) THEN "execute"
                ELSE IF ContainsAny(operation_lower, WRITE_KEYWORDS) THEN "write"
                ELSE IF ContainsAny(operation_lower, READ_KEYWORDS) THEN "read"
                ELSE "write"
    IN  <<type, ACTION_MULTIPLIERS[type]>>

\* Variant: a classify_action that scans the keywords before it tries the
\* read-only patterns.
ClassifyActionKeywordsFirst(operation) ==
    LET operation_lower == Lower(operation)
        type == IF ContainsAny(operation_lower, EXECUTE_KEYWORDS) THEN "execute"
                ELSE IF ContainsAny(operation_lower, DELETE_KEYWORDS) THEN "delete"
                ELSE IF ContainsAny(operation_lower, WRITE_KEYWORDS) THEN "write"
                ELSE IF matches_any_pattern(operation, READ_ONLY_PATTERNS) THEN "read"
                ELSE IF ContainsAny(operation_lower, READ_KEYWORDS) THEN "read"
                ELSE "write"
    IN  <<type, ACTION_MULTIPLIERS[type]>>

\* ActionClassifier.classify_action: <<action type, multiplier>>
classify_action(operation) ==
    LET operation_lower == Lower(operation)
        type == IF matches_any_pattern(operation, READ_ONLY_PATTERNS) THEN "read"
                ELSE IF ContainsAny(operation_lower, EXECUTE_KEYWORDS) THEN "execute"
                ELSE IF ContainsAny(operation_lower, DELETE_KEYWORDS) THEN "delete"
                ELSE IF ContainsAny(operation_lower, WRITE_KEYWORDS) THEN "write"
                ELSE IF ContainsAny(operation_lower, READ_KEYWORDS) THEN "read"
                ELSE "write"
    IN  <<type, ACTION_MULTIPLIERS[type]>>

\* ActionClassifier.classify_scope: <<scope type, multiplier>>
classify_scope(operation, context) ==
    LET combined == Lower(Join(operation, context))
        type == IF ContainsAny(combined, SYSTEM_KEYWORDS) THEN "system"
                ELSE IF ContainsAny(combined, COLLECTION_KEYWORDS) THEN "collection"
                ELSE IF ContainsAny(combined, MULTIPLE_KEYWORDS) THEN "multiple"
                ELSE "single"
    IN  <<type, SCOPE_MULTIPLIERS[type]>>

\* ------------------------------------------------------------ RiskAssessor
\* The thresholds 3.0 and 8.0, in quarters.
LOW_THRESHOLD == 12
MEDIUM_THRESHOLD == 32

\* Variant: a level that is still low at the threshold 3.0.
LowUpToThreshold(score) ==
    IF score <= LOW_THRESHOLD THEN "low"
    ELSE IF score <= MEDIUM_THRESHOLD THEN "medium"
    ELSE "high"

_calculate_risk_level(score) ==
    IF score < LOW_THRESHOLD THEN "low"
    ELSE IF score <= MEDIUM_THRESHOLD THEN "medium"
    ELSE "high"

\* The score and level assess computes from what the classifiers answered,
\* each answer a pair <<type, number>>.
Scored(resource, action, scope) ==
    LET risk_score == resource[2] * action[2] * scope[2]
    IN  [risk_score |-> risk_score, risk_level |-> _calculate_risk_level(risk_score)]

\* RiskAssessor.assess: the Assessment it returns (it touches no store)
assess(operation, context) ==
    LET resource == classify(operation, context)
        action == classify_action(operation)
        scope == classify_scope(operation, context)
        scored == Scored(resource, action, scope)
    IN  [operation |-> operation,
         resource_type |-> resource[1],
         action_type |-> action[1],
         scope |-> scope[1],
         risk_score |-> scored.risk_score,
         risk_level |-> scored.risk_level,
         timestamp |-> now]

\* assess on an operation that the classifiers answer with these types.
assess_classified(resource_type, action_type, scope_type) ==
    LET resource == <<resource_type, RESOURCE_RISK_SCORES[resource_type]>>
        action == <<action_type, ACTION_MULTIPLIERS[action_type]>>
        scope == <<scope_type, SCOPE_MULTIPLIERS[scope_type]>>
    IN  /\ last' = [OutCall("assess_classified", 0, NoStep, "ok",
                            Scored(resource, action, scope))
                       EXCEPT !.args = [resource |-> resource, action |-> action,
                                        scope |-> scope]]
        /\ UNCHANGED <<assessments, plans, approvals, entries, now, calls>>

\* The three classifier calls that assess starts with, on their own.
classify_operation(operation, context) ==
    /\ last' = [OutCall("classify", 0, NoStep, "ok",
                        [resource |-> classify(operation, context),
                         action |-> classify_action(operation),
                         scope |-> classify_scope(operation, context)])
                   EXCEPT !.text = operation, !.args = context]
    /\ UNCHANGED <<assessments, plans, approvals, entries, now, calls>>

\* RiskAssessor.assess, called directly: what it returns, and the stores as
\* they were.
assess_operation(operation, context) ==
    /\ last' = [OutCall("assess", 0, NoStep, "ok", assess(operation, context))
                   EXCEPT !.text = operation, !.args = context]
    /\ UNCHANGED <<assessments, plans, approvals, entries, now, calls>>

\* ------------------------------------------------------- DeviationDetector
\* str.split(): the words of a text, in order
RECURSIVE Split(_)
Split(text) ==
    LET t == LStrip(text)
    IN  IF t = <<>> THEN <<>>
        ELSE LET n == IF \E i \in DOMAIN t : t[i] \in SpaceChars
                      THEN (CHOOSE i \in DOMAIN t :
                               /\ t[i] \in SpaceChars
                               /\ \A j \in 1 .. i - 1 : t[j] \notin SpaceChars) - 1
                      ELSE Len(t)
             IN  <<SubSeq(t, 1, n)>> \o Split(SubSeq(t, n + 1, Len(t)))

\* " ".join(words)
RECURSIVE JoinWords(_)
JoinWords(words) ==
    IF words = <<>> THEN <<>>
    ELSE IF Len(words) = 1 THEN words[1]
    ELSE words[1] \o <<" ">> \o JoinWords(Tail(words))

_normalize(text) == JoinWords(Split(Lower(text)))

\* _calculate_similarity: the fraction <<numerator, denominator>>
_calculate_similarity(text1, text2) ==
    LET words1 == { Split(text1)[i] : i \in DOMAIN Split(text1) }
        words2 == { Split(text2)[i] : i \in DOMAIN Split(text2) }
    IN  IF words1 = {} /\ words2 = {} THEN <<1, 1>>
        ELSE IF words1 = {} \/ words2 = {} THEN <<0, 1>>
        ELSE <<Cardinality(words1 \cap words2), Cardinality(words1 \cup words2)>>

\* _check_operation_deviation: None, or Some(deviation type)
_check_operation_deviation(planned, actual) ==
    IF planned = <<>> \/ actual = <<>> THEN None
    ELSE IF _normalize(planned) = _normalize(actual) THEN None
    ELSE LET similarity == _calculate_similarity(_normalize(planned), _normalize(actual))
         IN  IF 10 * similarity[1] >= 9 * similarity[2] THEN None
             ELSE IF 10 * similarity[1] >= 7 * similarity[2] THEN Some("minor")
             ELSE Some("major")

\* _check_outcome_deviation: None, or Some(deviation type)
_check_outcome_deviation(expected, actual) ==
    IF expected = <<>> \/ actual = <<>> THEN None
    ELSE IF ContainsAny(Lower(actual), error_indicators) THEN Some("critical")
    ELSE IF /\ ContainsAny(Lower(expected), success_indicators)
            /\ ~ContainsAny(Lower(actual), success_indicators)
         THEN Some("major")
    ELSE None

severity_order == <<"minor", "major", "critical">>

SeverityIndex(s) == CHOOSE i \in DOMAIN severity_order : severity_order[i] = s

\* _calculate_severity(deviations), deviations the list of deviation types
RECURSIVE MaxSeverity(_, _)
MaxSeverity(deviations, max_severity) ==
    IF deviations = <<>> THEN max_severity
    ELSE MaxSeverity(Tail(deviations),
                     IF SeverityIndex(Head(deviations)) > SeverityIndex(max_severity)
                     THEN Head(deviations)
                     ELSE max_severity)

\* Variant: a severity that is the one of the last finding.
SeverityOfLastFinding(deviations) ==
    IF deviations = <<>> THEN "none" ELSE deviations[Len(deviations)]

_calculate_severity(deviations) ==
    IF deviations = <<>> THEN "none" ELSE MaxSeverity(deviations, "minor")

\* DeviationDetector.detect: the DeviationReport
detect(step, actual_operation, actual_outcome) ==
    LET deviations == _check_operation_deviation(step.operation, actual_operation)
                      \o _check_outcome_deviation(step.expected_outcome, actual_outcome)
    IN  [has_deviation |-> Len(deviations) > 0,
         severity |-> _calculate_severity(deviations),
         deviations |-> deviations]

\* The lists of findings given to _calculate_severity, each finding its
\* deviation_type.
MaxFindings == 3
FindingLists == UNION { [1 .. n -> {"minor", "major", "critical"}] : n \in 0 .. MaxFindings }

\* DeviationDetector._calculate_severity, called directly on a list of findings
calculate_severity(deviations) ==
    /\ last' = [OutCall("_calculate_severity", 0, NoStep, "ok",
                        _calculate_severity(deviations))
                   EXCEPT !.args = deviations]
    /\ UNCHANGED <<assessments, plans, approvals, entries, now, calls>>

\* DeviationDetector.detect, called directly on a step with these planned
\* texts: the report, and next to it what each of the two checks found.
detect_step(planned, expected, actual_operation, actual_outcome) ==
    /\ last' = [OutCall("detect", 0, NoStep, "ok",
                        [report |-> detect([operation |-> planned,
                                            expected_outcome |-> expected],
                                           actual_operation, actual_outcome),
                         operation |-> _check_operation_deviation(planned, actual_operation),
                         outcome |-> _check_outcome_deviation(expected, actual_outcome)])
                   EXCEPT !.args = [planned |-> planned, expected |-> expected,
                                    actual_operation |-> actual_operation,
                                    actual_outcome |-> actual_outcome]]
    /\ UNCHANGED <<assessments, plans, approvals, entries, now, calls>>

\* ------------------------------------------------------------ inputs
PlanIds == 1 .. MaxPlans
StepIds == PlanIds \X (1 .. MaxSteps)
AssessmentIds == 1 .. MaxAssessments

\* "Step completed successfully"
DefaultExpected ==
    <<"S", "t", "e", "p", " ", "c", "o", "m", "p", "l", "e", "t", "e", "d", " ", "s", "u", "c", "c", "e", "s", "s", "f", "u", "l", "l", "y">>

\* "backup db", "restore db", "Completed", "Critical deviation detected"
OpBackup == <<"b", "a", "c", "k", "u", "p", " ", "d", "b">>
Undo == <<"r", "e", "s", "t", "o", "r", "e", " ", "d", "b">>
Completed == <<"C", "o", "m", "p", "l", "e", "t", "e", "d">>
CriticalDeviation ==
    <<"C", "r", "i", "t", "i", "c", "a", "l", " ", "d", "e", "v", "i", "a", "t", "i", "o", "n", " ", "d", "e", "t", "e", "c", "t", "e", "d">>

\* not step.get(key): the key is absent or its text is empty
Missing(opt) == opt = None \/ opt[1] = <<>>

\* Step definitions (dicts) a caller passes: every key may be absent (None).
StepDefs ==
    { [description |-> Some(OpBackup), operation |-> Some(OpBackup),
       expected_outcome |-> Some(DefaultExpected), rollback_action |-> Some(Undo)],
      [description |-> Some(OpBackup), operation |-> Some(OpBackup),
       expected_outcome |-> None, rollback_action |-> None],
      [description |-> None, operation |-> Some(OpBackup),
       expected_outcome |-> None, rollback_action |-> None],
      [description |-> Some(OpBackup), operation |-> None,
       expected_outcome |-> None, rollback_action |-> Some(<<>>)] }

StepLists == UNION { [1 .. n -> StepDefs] : n \in 0 .. MaxSteps }

\* The step lists given to governor_create_plan: the empty list, and lists of
\* complete definitions (with a rollback action) that end with any definition.
ToolStepLists ==
    { steps \in StepLists :
          \A i \in 1 .. Len(steps) - 1 :
              /\ ~Missing(steps[i].description)
              /\ ~Missing(steps[i].operation)
              /\ steps[i].rollback_action # None }

\* "delete all records from user_sessions table", "cat config.yaml"
OpDeleteAll ==
    <<"d", "e", "l", "e", "t", "e", " ", "a", "l", "l", " ", "r", "e", "c", "o", "r", "d", "s", " ", "f", "r", "o", "m", " ", "u", "s", "e", "r", "_", "s", "e", "s", "s", "i", "o", "n", "s", " ", "t", "a", "b", "l", "e">>
OpCat == <<"c", "a", "t", " ", "c", "o", "n", "f", "i", "g", ".", "y", "a", "m", "l">>
Operations == { OpDeleteAll, OpCat }

\* "drop db", "error: disk full"
OpDrop == <<"d", "r", "o", "p", " ", "d", "b">>
OutcomeError == <<"e", "r", "r", "o", "r", ":", " ", "d", "i", "s", "k", " ", "f", "u", "l", "l">>
ActualOperations == { <<>>, OpDrop }
ActualOutcomes == { <<>>, OutcomeError }

\* Operations with their contexts, for the classifiers.
ClassifierInputs ==
    {
      \* "Run rm", ""
      <<<<"R", "u", "n", " ", "r", "m">>,
        <<>>>>,
      \* "rm; add", ""
      <<<<"r", "m", ";", " ", "a", "d", "d">>,
        <<>>>>,
      \* "add look", ""
      <<<<"a", "d", "d", " ", "l", "o", "o", "k">>,
        <<>>>>,
      \* "sudo cat /var/x.db", ""
      <<<<"s", "u", "d", "o", " ", "c", "a", "t", " ", "/", "v", "a", "r", "/", "x", ".", "d", "b">>,
        <<>>>>,
      \* "DELETE FROM users", ""
      <<<<"D", "E", "L", "E", "T", "E", " ", "F", "R", "O", "M", " ", "u", "s", "e", "r", "s">>,
        <<>>>>,
      \* "curl https://x.io/.env", ""
      <<<<"c", "u", "r", "l", " ", "h", "t", "t", "p", "s", ":", "/", "/", "x", ".", "i", "o", "/", ".", "e", "n", "v">>,
        <<>>>>,
      \* "cat config.yaml", ""
      <<<<"c", "a", "t", " ", "c", "o", "n", "f", "i", "g", ".", "y", "a", "m", "l">>,
        <<>>>>,
      \* "compute sum", ""
      <<<<"c", "o", "m", "p", "u", "t", "e", " ", "s", "u", "m">>,
        <<>>>>,
      \* "curl x", ""
      <<<<"c", "u", "r", "l", " ", "x">>,
        <<>>>>,
      \* "delete all records from user_sessions table", ""
      <<<<"d", "e", "l", "e", "t", "e", " ", "a", "l", "l", " ", "r", "e", "c", "o", "r", "d", "s", " ", "f", "r", "o", "m", " ", "u", "s", "e", "r", "_", "s", "e", "s", "s", "i", "o", "n", "s", " ", "t", "a", "b", "l", "e">>,
        <<>>>>,
      \* "cat a; rm -rf b; write c; run d", ""
      <<<<"c", "a", "t", " ", "a", ";", " ", "r", "m", " ", "-", "r", "f", " ", "b", ";", " ", "w", "r", "i", "t", "e", " ", "c", ";", " ", "r", "u", "n", " ", "d">>,
        <<>>>>,
      \* "view notes", "sudo"
      <<<<"v", "i", "e", "w", " ", "n", "o", "t", "e", "s">>,
        <<"s", "u", "d", "o">>>>,
      \* "concat files then delete", ""
      <<<<"c", "o", "n", "c", "a", "t", " ", "f", "i", "l", "e", "s", " ", "t", "h", "e", "n", " ", "d", "e", "l", "e", "t", "e">>,
        <<>>>>,
      \* "Tail -f app.log and restart", ""
      <<<<"T", "a", "i", "l", " ", "-", "f", " ", "a", "p", "p", ".", "l", "o", "g", " ", "a", "n", "d", " ", "r", "e", "s", "t", "a", "r", "t">>,
        <<>>>> }

\* Planned operations with the operations actually run, for the detector.
OperationPairs ==
    {
      \* "a b c d e f g h i j", "a b c d e f g h i"
      <<<<"a", " ", "b", " ", "c", " ", "d", " ", "e", " ", "f", " ", "g", " ", "h", " ", "i", " ", "j">>,
        <<"a", " ", "b", " ", "c", " ", "d", " ", "e", " ", "f", " ", "g", " ", "h", " ", "i">>>>,
      \* "a b c d e f g h i j", " A  B c d e f g h i j"
      <<<<"a", " ", "b", " ", "c", " ", "d", " ", "e", " ", "f", " ", "g", " ", "h", " ", "i", " ", "j">>,
        <<" ", "A", " ", " ", "B", " ", "c", " ", "d", " ", "e", " ", "f", " ", "g", " ", "h", " ", "i", " ", "j">>>>,
      \* "a b c d e f g h i j", "a b c d e f g h"
      <<<<"a", " ", "b", " ", "c", " ", "d", " ", "e", " ", "f", " ", "g", " ", "h", " ", "i", " ", "j">>,
        <<"a", " ", "b", " ", "c", " ", "d", " ", "e", " ", "f", " ", "g", " ", "h">>>>,
      \* "a b c d e f g h i j", "a b c d e f g"
      <<<<"a", " ", "b", " ", "c", " ", "d", " ", "e", " ", "f", " ", "g", " ", "h", " ", "i", " ", "j">>,
        <<"a", " ", "b", " ", "c", " ", "d", " ", "e", " ", "f", " ", "g">>>>,
      \* "a b c d e f g h i j", "a b c d e f"
      <<<<"a", " ", "b", " ", "c", " ", "d", " ", "e", " ", "f", " ", "g", " ", "h", " ", "i", " ", "j">>,
        <<"a", " ", "b", " ", "c", " ", "d", " ", "e", " ", "f">>>>,
      \* "backup db", "drop db"
      <<<<"b", "a", "c", "k", "u", "p", " ", "d", "b">>,
        <<"d", "r", "o", "p", " ", "d", "b">>>>,
      \* "backup db", ""
      <<<<"b", "a", "c", "k", "u", "p", " ", "d", "b">>,
        <<>>>>,
      \* "", "drop db"
      <<<<>>,
        <<"d", "r", "o", "p", " ", "d", "b">>>>,
      \* "  ", "drop db"
      <<<<" ", " ">>,
        <<"d", "r", "o", "p", " ", "d", "b">>>>,
      \* "  ", " "
      <<<<" ", " ">>,
        <<" ">>>>,
      \* "", ""
      <<<<>>,
        <<>>>> }

\* What governor_approve is asked to decide: a target type and a target id.
\* "other" is a target type the tool does not know.
ApproveTargets ==
    { <<"assessment", TargetId(a)>> : a \in AssessmentIds }
        \cup { <<"plan", TargetId(p)>> : p \in PlanIds }
        \cup { <<"step", s>> : s \in StepIds }
        \cup { <<"other", TargetId(p)>> : p \in PlanIds }

Results == { Completed }
Errors == { CriticalDeviation }

\* dict.get(key, default)
Get(opt, default) == IF opt = None THEN default ELSE opt[1]

\* --------------------------------------------------------- SessionManager
\* The plan is stored and step_id names one of its steps.
HasStep(ps, plan_id, step_id) ==
    /\ plan_id \in DOMAIN ps
    /\ step_id[1] = plan_id
    /\ step_id[2] \in DOMAIN ps[plan_id].steps

\* update_step_status: the plans after the call (unchanged when nothing is found)
update_step_status(ps, plan_id, step_id, status, result, error) ==
    IF HasStep(ps, plan_id, step_id)
    THEN [ps EXCEPT ![plan_id].steps[step_id[2]] =
              [@ EXCEPT !.status = status, !.result = result, !.error = error]]
    ELSE ps

store_approval(as, approval) == Append(as, approval)

store_assessment(assessment) == Append(assessments, assessment)

\* Variant: an is_approved that answers with the first approval stored for
\* the target.
IsApprovedFirstStored(as, target_type, target_id) ==
    LET Targets(a) == a.target_type = target_type /\ a.target_id = target_id
        found == SelectSeq(as, Targets)
    IN  IF found = <<>> THEN FALSE ELSE found[1].approved

\* SessionManager.is_approved: max(approvals, key=timestamp) is the first of
\* the approvals that none exceeds.
IsApproved(as, target_type, target_id) ==
    LET Targets(a) == a.target_type = target_type /\ a.target_id = target_id
        found == SelectSeq(as, Targets)
        latest == CHOOSE i \in DOMAIN found :
                      /\ \A j \in DOMAIN found : found[j].timestamp <= found[i].timestamp
                      /\ \A j \in 1 .. i - 1 : found[j].timestamp < found[i].timestamp
    IN  IF found = <<>> THEN FALSE ELSE found[latest].approved

\* The session's approval operations, called directly.  The approval stored
\* was built at the time timestamp, now or before.
session_store_approval(target_type, target_id, approved, timestamp) ==
    /\ Len(approvals) < MaxStored
    /\ approvals' = store_approval(approvals,
                         [Approval(target_type, target_id, approved)
                             EXCEPT !.timestamp = timestamp])
    /\ last' = [ToolCall("store_approval", target_type, 0, target_id, "ok")
                   EXCEPT !.out = approved]
    /\ UNCHANGED <<assessments, plans, entries, now, calls>>

is_approved(target_type, target_id) ==
    /\ last' = [ToolCall("is_approved", target_type, 0, target_id, "ok")
                   EXCEPT !.out = IsApproved(approvals, target_type, target_id)]
    /\ UNCHANGED <<assessments, plans, approvals, entries, now, calls>>

\* ------------------------------------------------------------ AuditLogger
\* Variant: an audit entry that names no assessment, plan or step.
AuditEntryUnlinked(action, risk_level, assessment_id, plan_id, step_id, success) ==
    [action |-> action,
     risk_level |-> risk_level,
     assessment_id |-> 0,
     plan_id |-> 0,
     step_id |-> NoStep,
     success |-> success,
     timestamp |-> now]

AuditEntry(action, risk_level, assessment_id, plan_id, step_id, success) ==
    [action |-> action,
     risk_level |-> risk_level,
     assessment_id |-> assessment_id,
     plan_id |-> plan_id,
     step_id |-> step_id,
     success |-> success,
     timestamp |-> now]

\* AuditLogger.log: the entries after the call
log(es, entry) == Append(es, entry)

\* One insertion of list.sort(key=timestamp, reverse=True): e goes behind the
\* entries that are not older, so entries of equal timestamp keep their order.
InsertDesc(sorted, e) ==
    LET k == Cardinality({i \in DOMAIN sorted : sorted[i].timestamp >= e.timestamp})
    IN  SubSeq(sorted, 1, k) \o <<e>> \o SubSeq(sorted, k + 1, Len(sorted))

RECURSIVE SortByTimestampDesc(_)
SortByTimestampDesc(es) ==
    IF es = <<>> THEN <<>>
    ELSE InsertDesc(SortByTimestampDesc(SubSeq(es, 1, Len(es) - 1)), es[Len(es)])

\* entries[offset:] and entries[:limit] for offset, limit >= 0
DropFirst(es, offset) == SubSeq(es, offset + 1, Len(es))
KeepFirst(es, limit) == SubSeq(es, 1, IF limit < Len(es) THEN limit ELSE Len(es))

\* The filters of get_entries, one after the other.  An optional filter is
\* None or Some(value).
Filtered(es, q) ==
    LET ByRisk(e) == e.risk_level = q.risk_level[1]
        ByAction(e) == e.action = q.action[1]
        BySince(e) == e.timestamp >= q.since[1]
        ByUntil(e) == e.timestamp <= q.until[1]
        ByAssessment(e) == e.assessment_id = q.assessment_id[1]
        ByPlan(e) == e.plan_id = q.plan_id[1]
        Succeeded(e) == e.success
        Failed(e) == ~e.success
        f1 == IF q.risk_level # None THEN SelectSeq(es, ByRisk) ELSE es
        f2 == IF q.action # None THEN SelectSeq(f1, ByAction) ELSE f1
        f3 == IF q.since # None THEN SelectSeq(f2, BySince) ELSE f2
        f4 == IF q.until # None THEN SelectSeq(f3, ByUntil) ELSE f3
        f5 == IF q.assessment_id # None THEN SelectSeq(f4, ByAssessment) ELSE f4
        f6 == IF q.plan_id # None THEN SelectSeq(f5, ByPlan) ELSE f5
        f7 == IF q.success_only THEN SelectSeq(f6, Succeeded) ELSE f6
    IN  IF q.failures_only THEN SelectSeq(f7, Failed) ELSE f7

\* Variant: a get_entries that cuts to limit before it drops offset entries.
GetEntriesLimitFirst(es, q) ==
    LET sorted == SortByTimestampDesc(Filtered(es, q))
        cut == IF q.limit # None THEN KeepFirst(sorted, q.limit[1]) ELSE sorted
    IN  IF q.offset > 0 THEN DropFirst(cut, q.offset) ELSE cut

\* AuditLogger.get_entries: what the query q returns on the entries es; limit
\* and offset are not negative.
GetEntries(es, q) ==
    LET sorted == SortByTimestampDesc(Filtered(es, q))
        paged == IF q.offset > 0 THEN DropFirst(sorted, q.offset) ELSE sorted
    IN  IF q.limit # None THEN KeepFirst(paged, q.limit[1]) ELSE paged

\* AuditLogger.get_stats; success_rate is None or Some(<<successes, total>>).
GetStats(es) ==
    LET Count(Test(_)) == Cardinality({i \in DOMAIN es : Test(es[i])})
        Succeeded(e) == e.success
    IN  [total_entries |-> Len(es),
         by_risk_level |->
             [l \in {es[i].risk_level : i \in DOMAIN es} |->
                 Cardinality({i \in DOMAIN es : es[i].risk_level = l})],
         by_action |->
             [a \in {es[i].action : i \in DOMAIN es} |->
                 Cardinality({i \in DOMAIN es : es[i].action = a})],
         success_rate |->
             IF es = <<>> THEN None ELSE Some(<<Count(Succeeded), Len(es)>>)]

\* What a caller logs: action, risk level, linked assessment and plan (0 is
\* None), success.
LogInputs ==
    { [action |-> "assess", risk_level |-> "high", assessment_id |-> 1, plan_id |-> 0,
       success |-> TRUE],
      [action |-> "execute_step", risk_level |-> "high", assessment_id |-> 0, plan_id |-> 1,
       success |-> FALSE],
      [action |-> "execute_step", risk_level |-> "low", assessment_id |-> 0, plan_id |-> 1,
       success |-> TRUE] }

NoFilter ==
    [risk_level |-> None, action |-> None, since |-> None, until |-> None,
     assessment_id |-> None, plan_id |-> None, success_only |-> FALSE,
     failures_only |-> FALSE]

Filters ==
    { NoFilter,
      [NoFilter EXCEPT !.risk_level = Some("high")],
      [NoFilter EXCEPT !.action = Some("execute_step")],
      [NoFilter EXCEPT !.since = Some(MaxClock)],
      [NoFilter EXCEPT !.until = Some(1)],
      [NoFilter EXCEPT !.assessment_id = Some(1)],
      [NoFilter EXCEPT !.plan_id = Some(1)],
      [NoFilter EXCEPT !.success_only = TRUE],
      [NoFilter EXCEPT !.failures_only = TRUE],
      [NoFilter EXCEPT !.success_only = TRUE, !.failures_only = TRUE],
      [NoFilter EXCEPT !.risk_level = Some("high"), !.plan_id = Some(1),
                       !.since = Some(1)] }

\* A query: filters, then limit (None or Some(n)) and offset.
Query(filter, limit, offset) ==
    [risk_level |-> filter.risk_level, action |-> filter.action,
     since |-> filter.since, until |-> filter.until,
     assessment_id |-> filter.assessment_id, plan_id |-> filter.plan_id,
     success_only |-> filter.success_only, failures_only |-> filter.failures_only,
     limit |-> limit, offset |-> offset]

Queries ==
    { Query(f, l, o) : f \in Filters, l \in {None, Some(1), Some(2)}, o \in {0, 1} }

\* Variant: a log that refuses an entry whose plan is unknown, failed or
\* aborted.
audit_log_of_live_plan(input) ==
    /\ Len(entries) < MaxAudit
    /\ \/ input.plan_id = 0
       \/ /\ input.plan_id \in DOMAIN plans
          /\ plans[input.plan_id].status \notin {"failed", "aborted"}
    /\ entries' = log(entries,
                      AuditEntry(input.action, input.risk_level, input.assessment_id,
                                 input.plan_id, NoStep, input.success))
    /\ last' = [Call("log", input.plan_id, NoStep, "ok") EXCEPT !.args = input]
    /\ UNCHANGED <<assessments, plans, approvals, now, calls>>

\* The operations of AuditLogger, called directly.
audit_log(input) ==
    /\ Len(entries) < MaxAudit
    /\ entries' = log(entries,
                      AuditEntry(input.action, input.risk_level, input.assessment_id,
                                 input.plan_id, NoStep, input.success))
    /\ last' = [Call("log", input.plan_id, NoStep, "ok") EXCEPT !.args = input]
    /\ UNCHANGED <<assessments, plans, approvals, now, calls>>

get_entries(q) ==
    /\ last' = [OutCall("get_entries", 0, NoStep, "ok", GetEntries(entries, q))
                   EXCEPT !.args = q]
    /\ UNCHANGED <<assessments, plans, approvals, entries, now, calls>>

get_stats ==
    /\ last' = OutCall("get_stats", 0, NoStep, "ok", GetStats(entries))
    /\ UNCHANGED <<assessments, plans, approvals, entries, now, calls>>

clear ==
    /\ entries' = <<>>
    /\ last' = Call("clear", 0, NoStep, "ok")
    /\ UNCHANGED <<assessments, plans, approvals, now, calls>>

\* --------------------------------------------------------- PlanController
\* Each method is given as the plans it leaves (CreatePlan, ApprovePlan, ...),
\* which the tool layer composes, and as the action of calling it directly.

\* Variant: a create_plan that numbers the steps from 0, as enumerate does.
CreatePlanFromZero(ps, assessment_id, steps) ==
    LET plan_steps ==
            [i \in DOMAIN steps |->
                PlanStep(i - 1,
                         Get(steps[i].operation, <<>>),
                         Get(steps[i].expected_outcome, <<>>),
                         steps[i].rollback_action)]
    IN  Append(ps, Plan(assessment_id, plan_steps))

CreatePlan(ps, assessment_id, steps) ==
    LET plan_steps ==
            [i \in DOMAIN steps |->
                PlanStep(i,
                         Get(steps[i].operation, <<>>),
                         Get(steps[i].expected_outcome, <<>>),
                         steps[i].rollback_action)]
    IN  Append(ps, Plan(assessment_id, plan_steps))

create_plan(assessment_id, steps) ==
    /\ Len(plans) < MaxPlans
    /\ plans' = CreatePlan(plans, assessment_id, steps)
    /\ last' = [Call("create_plan", Len(plans) + 1, NoStep, "ok")
                   EXCEPT !.args = [assessment_id |-> assessment_id, steps |-> steps]]
    /\ UNCHANGED <<assessments, approvals, entries, now, calls>>

\* What submit_for_approval returns: the plan ("ok"), None, or a ValueError.
SubmitReturns(ps, plan_id) ==
    IF plan_id \notin DOMAIN ps THEN "none"
    ELSE IF ps[plan_id].status # "draft" THEN "error"
    ELSE "ok"

\* Variant: a submit_for_approval that does not look at the plan's status.
SubmitWhateverStatus(ps, plan_id) ==
    IF plan_id \in DOMAIN ps
    THEN [ps EXCEPT ![plan_id].status = "awaiting_approval"]
    ELSE ps

SubmitForApproval(ps, plan_id) ==
    IF SubmitReturns(ps, plan_id) = "ok"
    THEN [ps EXCEPT ![plan_id].status = "awaiting_approval"]
    ELSE ps

submit_for_approval(plan_id) ==
    /\ plans' = SubmitForApproval(plans, plan_id)
    /\ last' = Call("submit_for_approval", plan_id, NoStep, SubmitReturns(plans, plan_id))
    /\ UNCHANGED <<assessments, approvals, entries, now, calls>>

\* Variant: an approve_plan that approves the plan and leaves its steps alone.
ApprovePlanOnly(ps, plan_id) ==
    IF plan_id \notin DOMAIN ps THEN ps
    ELSE [ps EXCEPT ![plan_id].status = "in_progress"]

ApprovePlan(ps, plan_id) ==
    IF plan_id \notin DOMAIN ps THEN ps
    ELSE [ps EXCEPT
             ![plan_id].status = "in_progress",
             ![plan_id].steps = [i \in DOMAIN @ |-> [@[i] EXCEPT !.status = "approved"]]]

approve_plan(plan_id) ==
    /\ Len(approvals) < MaxApprovals
    /\ plans' = ApprovePlan(plans, plan_id)
    /\ approvals' = IF plan_id \in DOMAIN plans
                    THEN store_approval(approvals, Approval("plan", TargetId(plan_id), TRUE))
                    ELSE approvals
    /\ last' = Call("approve_plan", plan_id, NoStep,
                    IF plan_id \in DOMAIN plans THEN "ok" ELSE "none")
    /\ UNCHANGED <<assessments, entries, now, calls>>

\* Variant: a deny_plan that also skips the steps, as abort_plan does.
DenyPlanSkippingSteps(ps, plan_id) ==
    IF plan_id \notin DOMAIN ps THEN ps
    ELSE [ps EXCEPT
             ![plan_id].steps =
                 [i \in DOMAIN @ |->
                     IF @[i].status \in {"pending", "approved"}
                     THEN [@[i] EXCEPT !.status = "skipped"]
                     ELSE @[i]],
             ![plan_id].status = "aborted",
             ![plan_id].completed_at = now]

DenyPlan(ps, plan_id) ==
    IF plan_id \notin DOMAIN ps THEN ps
    ELSE [ps EXCEPT ![plan_id].status = "aborted", ![plan_id].completed_at = now]

deny_plan(plan_id) ==
    /\ Len(approvals) < MaxApprovals
    /\ plans' = DenyPlan(plans, plan_id)
    /\ approvals' = IF plan_id \in DOMAIN plans
                    THEN store_approval(approvals, Approval("plan", TargetId(plan_id), FALSE))
                    ELSE approvals
    /\ last' = Call("deny_plan", plan_id, NoStep,
                    IF plan_id \in DOMAIN plans THEN "ok" ELSE "none")
    /\ UNCHANGED <<assessments, entries, now, calls>>

\* Variant: an approve_step that puts the plan in progress, as approve_plan does.
ApproveStepStartingPlan(ps, plan_id, step_id) ==
    IF HasStep(ps, plan_id, step_id)
    THEN [ps EXCEPT ![plan_id].steps[step_id[2]].status = "approved",
                    ![plan_id].status = "in_progress"]
    ELSE ps

ApproveStep(ps, plan_id, step_id) ==
    IF HasStep(ps, plan_id, step_id)
    THEN [ps EXCEPT ![plan_id].steps[step_id[2]].status = "approved"]
    ELSE ps

approve_step(plan_id, step_id) ==
    /\ Len(approvals) < MaxApprovals
    /\ plans' = ApproveStep(plans, plan_id, step_id)
    /\ approvals' = IF HasStep(plans, plan_id, step_id)
                    THEN store_approval(approvals, Approval("step", step_id, TRUE))
                    ELSE approvals
    /\ last' = Call("approve_step", plan_id, step_id,
                    IF HasStep(plans, plan_id, step_id) THEN "ok" ELSE "none")
    /\ UNCHANGED <<assessments, entries, now, calls>>

DenyStep(ps, plan_id, step_id) ==
    IF HasStep(ps, plan_id, step_id)
    THEN [ps EXCEPT ![plan_id].steps[step_id[2]].status = "denied"]
    ELSE ps

deny_step(plan_id, step_id) ==
    /\ Len(approvals) < MaxApprovals
    /\ plans' = DenyStep(plans, plan_id, step_id)
    /\ approvals' = IF HasStep(plans, plan_id, step_id)
                    THEN store_approval(approvals, Approval("step", step_id, FALSE))
                    ELSE approvals
    /\ last' = Call("deny_step", plan_id, step_id,
                    IF HasStep(plans, plan_id, step_id) THEN "ok" ELSE "none")
    /\ UNCHANGED <<assessments, entries, now, calls>>

StartStepExecution(ps, plan_id, step_id) ==
    update_step_status(ps, plan_id, step_id, "executing", None, None)

start_step_execution(plan_id, step_id) ==
    /\ plans' = StartStepExecution(plans, plan_id, step_id)
    /\ last' = Call("start_step_execution", plan_id, step_id,
                    IF HasStep(plans, plan_id, step_id) THEN "ok" ELSE "none")
    /\ UNCHANGED <<assessments, approvals, entries, now, calls>>

\* all(s.status in (COMPLETED, SKIPPED) for s in plan.steps)
all_completed(plan) ==
    \A i \in DOMAIN plan.steps : plan.steps[i].status \in {"completed", "skipped"}

\* Variant: a complete_step that also moves the plan's pointer to the next
\* step, as Plan.advance_to_next_step would.
CompleteStepAdvancing(ps, plan_id, step_id, result) ==
    LET upd == update_step_status(ps, plan_id, step_id, "completed", Some(result), None)
    IN  IF ~HasStep(ps, plan_id, step_id) THEN upd
        ELSE IF all_completed(upd[plan_id])
        THEN [upd EXCEPT ![plan_id].status = "completed", ![plan_id].completed_at = now,
                         ![plan_id].current_step_index = @ + 1]
        ELSE [upd EXCEPT ![plan_id].current_step_index = @ + 1]

\* Variant: a complete_step that never looks at the other steps, so the plan
\* keeps its status.
CompleteStepLeavingPlan(ps, plan_id, step_id, result) ==
    update_step_status(ps, plan_id, step_id, "completed", Some(result), None)

CompleteStep(ps, plan_id, step_id, result) ==
    LET upd == update_step_status(ps, plan_id, step_id, "completed", Some(result), None)
    IN  IF HasStep(ps, plan_id, step_id) /\ all_completed(upd[plan_id])
        THEN [upd EXCEPT ![plan_id].status = "completed", ![plan_id].completed_at = now]
        ELSE upd

complete_step(plan_id, step_id, result) ==
    /\ plans' = CompleteStep(plans, plan_id, step_id, result)
    /\ last' = TextCall("complete_step", plan_id, step_id,
                        IF HasStep(plans, plan_id, step_id) THEN "ok" ELSE "none", result)
    /\ UNCHANGED <<assessments, approvals, entries, now, calls>>

\* Variant: a fail_step that fails the plan also when the step is not found.
FailStepPlanAnyway(ps, plan_id, step_id, error) ==
    LET upd == update_step_status(ps, plan_id, step_id, "failed", None, Some(error))
    IN  IF plan_id \in DOMAIN ps
        THEN [upd EXCEPT ![plan_id].status = "failed"]
        ELSE upd

\* Variant: a fail_step that fails the plan only when no step is left to run.
FailStepWhenNoneLeft(ps, plan_id, step_id, error) ==
    LET upd == update_step_status(ps, plan_id, step_id, "failed", None, Some(error))
    IN  IF /\ HasStep(ps, plan_id, step_id)
           /\ \A i \in DOMAIN upd[plan_id].steps :
                  upd[plan_id].steps[i].status \notin {"pending", "approved"}
        THEN [upd EXCEPT ![plan_id].status = "failed"]
        ELSE upd

FailStep(ps, plan_id, step_id, error) ==
    LET upd == update_step_status(ps, plan_id, step_id, "failed", None, Some(error))
    IN  IF HasStep(ps, plan_id, step_id)
        THEN [upd EXCEPT ![plan_id].status = "failed"]
        ELSE upd

fail_step(plan_id, step_id, error) ==
    /\ plans' = FailStep(plans, plan_id, step_id, error)
    /\ last' = TextCall("fail_step", plan_id, step_id,
                        IF HasStep(plans, plan_id, step_id) THEN "ok" ELSE "none", error)
    /\ UNCHANGED <<assessments, approvals, entries, now, calls>>

\* The list abort_plan's first loop collects over the first n steps.
RECURSIVE rollback_suggestions(_, _, _)
rollback_suggestions(plan_id, plan, n) ==
    IF n = 0 THEN <<>>
    ELSE LET step == plan.steps[n]
             rest == rollback_suggestions(plan_id, plan, n - 1)
         IN  IF step.status = "completed" /\ ~Missing(step.rollback_action)
             THEN Append(rest, [step_id |-> <<plan_id, n>>,
                                step_order |-> step.order,
                                rollback_action |-> step.rollback_action[1]])
             ELSE rest

\* list(reversed(seq))
Reversed(seq) == [i \in 1 .. Len(seq) |-> seq[Len(seq) + 1 - i]]

\* Variant: an abort_plan that returns the suggestions in step order.
AbortReturnsInStepOrder(ps, plan_id) ==
    LET plan == ps[plan_id]
    IN  [rollback_suggestions |-> rollback_suggestions(plan_id, plan, Len(plan.steps)),
         completed_steps |->
             Cardinality({i \in DOMAIN plan.steps : plan.steps[i].status = "completed"}),
         skipped_steps |->
             Cardinality({i \in DOMAIN plan.steps :
                              plan.steps[i].status \in {"pending", "approved", "skipped"}})]

\* The dictionary abort_plan returns for a stored plan, from the plans before
\* the call: the counts are taken after pending and approved steps are skipped.
AbortReturns(ps, plan_id) ==
    LET plan == ps[plan_id]
    IN  [rollback_suggestions |->
             Reversed(rollback_suggestions(plan_id, plan, Len(plan.steps))),
         completed_steps |->
             Cardinality({i \in DOMAIN plan.steps : plan.steps[i].status = "completed"}),
         skipped_steps |->
             Cardinality({i \in DOMAIN plan.steps :
                              plan.steps[i].status \in {"pending", "approved", "skipped"}})]

\* Variant: an abort_plan that also skips the steps that are executing.
AbortPlanSkippingExecuting(ps, plan_id) ==
    IF plan_id \notin DOMAIN ps THEN ps
    ELSE [ps EXCEPT
             ![plan_id].steps =
                 [i \in DOMAIN @ |->
                     IF @[i].status \in {"pending", "approved", "executing"}
                     THEN [@[i] EXCEPT !.status = "skipped"]
                     ELSE @[i]],
             ![plan_id].status = "aborted",
             ![plan_id].completed_at = now]

AbortPlan(ps, plan_id) ==
    IF plan_id \notin DOMAIN ps THEN ps
    ELSE [ps EXCEPT
             ![plan_id].steps =
                 [i \in DOMAIN @ |->
                     IF @[i].status \in {"pending", "approved"}
                     THEN [@[i] EXCEPT !.status = "skipped"]
                     ELSE @[i]],
             ![plan_id].status = "aborted",
             ![plan_id].completed_at = now]

abort_plan(plan_id) ==
    /\ plans' = AbortPlan(plans, plan_id)
    /\ last' = IF plan_id \in DOMAIN plans
               THEN OutCall("abort_plan", plan_id, NoStep, "ok", AbortReturns(plans, plan_id))
               ELSE Call("abort_plan", plan_id, NoStep, "none")
    /\ UNCHANGED <<assessments, approvals, entries, now, calls>>

\* Variant: a status report that takes a draft plan for active, too.
GetPlanStatusDraftActive(ps, plan_id) ==
    IF plan_id \notin DOMAIN ps THEN None
    ELSE LET plan == ps[plan_id]
             index == plan.current_step_index
         IN  Some([current_step |->
                       IF 0 <= index /\ index < Len(plan.steps)
                       THEN Some(plan.steps[index + 1]) ELSE None,
                   step_summary |->
                       [st \in StepStatus |->
                           Cardinality({i \in DOMAIN plan.steps : plan.steps[i].status = st})],
                   progress |-> <<Cardinality({i \in DOMAIN plan.steps :
                                                  plan.steps[i].status = "completed"}),
                                  Len(plan.steps)>>,
                   is_active |->
                       plan.status \in {"draft", "awaiting_approval", "in_progress"}])

\* PlanController.get_plan_status: None, or Some(status dictionary); progress
\* "c/n" is the pair <<c, n>>, current_step_index counts from 0.
GetPlanStatus(ps, plan_id) ==
    IF plan_id \notin DOMAIN ps THEN None
    ELSE LET plan == ps[plan_id]
             index == plan.current_step_index
         IN  Some([current_step |->
                       IF 0 <= index /\ index < Len(plan.steps)
                       THEN Some(plan.steps[index + 1]) ELSE None,
                   step_summary |->
                       [st \in StepStatus |->
                           Cardinality({i \in DOMAIN plan.steps : plan.steps[i].status = st})],
                   progress |-> <<Cardinality({i \in DOMAIN plan.steps :
                                                  plan.steps[i].status = "completed"}),
                                  Len(plan.steps)>>,
                   is_active |-> plan.status \in {"awaiting_approval", "in_progress"}])

get_plan_status(plan_id) ==
    /\ last' = OutCall("get_plan_status", plan_id, NoStep,
                       IF GetPlanStatus(plans, plan_id) = None THEN "none" ELSE "ok",
                       GetPlanStatus(plans, plan_id))
    /\ UNCHANGED <<assessments, plans, approvals, entries, now, calls>>

\* SessionManager.get_active_plans: the ids of the plans it returns, in order
get_active_plans ==
    /\ LET Active(p) == plans[p].status \in {"awaiting_approval", "in_progress"}
       IN  last' = OutCall("get_active_plans", 0, NoStep, "ok",
                           SelectSeq([p \in DOMAIN plans |-> p], Active))
    /\ UNCHANGED <<assessments, plans, approvals, entries, now, calls>>

\* ------------------------------------------------------------- the tools
\* ------------------------------------- complete_step, sub-step by sub-step
\* PlanController.complete_step run by several callers at once without a
\* lock.  A call holds its arguments, its position and its local variable
\* all_completed; plan and step are references into the session, so every
\* sub-step reads and writes the plans as they are at that moment.
\* Positions: "update" (before update_step_status), "test" (inside
\* all(...), about to read the status of step next), "set" (before
\* plan.status = COMPLETED), "done" (returned).
MaxCalls == 2

Finished == {"completed", "skipped"}

\* complete_step is entered: plan = get_plan(plan_id); None ends the call
complete_step_enter(plan_id, step_id, result) ==
    /\ Len(calls) < MaxCalls
    /\ calls' = Append(calls,
                       [plan_id |-> plan_id, step_id |-> step_id, result |-> result,
                        pc |-> IF plan_id \in DOMAIN plans THEN "update" ELSE "done",
                        next |-> 1, all_completed |-> FALSE])
    /\ last' = TextCall("complete_step_enter", plan_id, step_id,
                        IF plan_id \in DOMAIN plans THEN "ok" ELSE "none", result)
    /\ UNCHANGED <<assessments, plans, approvals, entries, now>>

\* step = update_step_status(plan_id, step_id, COMPLETED, result); without
\* the step the call returns None
complete_step_update(c) ==
    LET call == calls[c]
        found == HasStep(plans, call.plan_id, call.step_id)
    IN  /\ call.pc = "update"
        /\ plans' = update_step_status(plans, call.plan_id, call.step_id,
                                       "completed", Some(call.result), None)
        /\ calls' = [calls EXCEPT ![c].pc = IF found THEN "test" ELSE "done"]
        /\ last' = Call("complete_step_update", call.plan_id, call.step_id,
                        IF found THEN "ok" ELSE "none")
        /\ UNCHANGED <<assessments, approvals, entries, now>>

\* Variant: a set that stamps completed_at and leaves the plan's status.
complete_step_set_time_only(c) ==
    LET call == calls[c]
    IN  /\ call.pc = "set"
        /\ plans' = [plans EXCEPT ![call.plan_id].completed_at = now]
        /\ calls' = [calls EXCEPT ![c].pc = "done"]
        /\ last' = Call("complete_step_set", call.plan_id, call.step_id, "ok")
        /\ UNCHANGED <<assessments, approvals, entries, now>>

\* all(s.status in (COMPLETED, SKIPPED) for s in plan.steps): one step of
\* the scan, which ends at the first step that is not finished
complete_step_test(c) ==
    LET call == calls[c]
        steps == plans[call.plan_id].steps
    IN  /\ call.pc = "test"
        /\ calls' =
               IF steps[call.next].status \notin Finished
               THEN [calls EXCEPT ![c].pc = "done"]
               ELSE IF call.next = Len(steps)
               THEN [calls EXCEPT ![c].all_completed = TRUE, ![c].pc = "set"]
               ELSE [calls EXCEPT ![c].next = @ + 1]
        /\ last' = Call("complete_step_test", call.plan_id, call.step_id, "ok")
        /\ UNCHANGED <<assessments, plans, approvals, entries, now>>

\* if all_completed: plan.status = COMPLETED; plan.completed_at = now
complete_step_set(c) ==
    LET call == calls[c]
    IN  /\ call.pc = "set"
        /\ plans' = [plans EXCEPT ![call.plan_id].status = "completed",
                                  ![call.plan_id].completed_at = now]
        /\ calls' = [calls EXCEPT ![c].pc = "done"]
        /\ last' = Call("complete_step_set", call.plan_id, call.step_id, "ok")
        /\ UNCHANGED <<assessments, approvals, entries, now>>

\* assessment.risk_level if assessment else RiskLevel.HIGH
RiskOf(assessment_id) ==
    IF assessment_id \in DOMAIN assessments
    THEN assessments[assessment_id].risk_level
    ELSE "high"

\* Variant: a governor_assess that stores the assessment and logs nothing.
GovernorAssessWithoutLog(operation, context) ==
    /\ Len(assessments) < MaxAssessments
    /\ Len(entries) < MaxAudit
    /\ assessments' = store_assessment(assess(operation, context))
    /\ last' = ToolCall("governor_assess", "", Len(assessments) + 1, NoStep, "ok")
    /\ UNCHANGED <<plans, approvals, entries, now, calls>>

governor_assess(operation, context) ==
    /\ Len(assessments) < MaxAssessments
    /\ Len(entries) < MaxAudit
    /\ LET assessment == assess(operation, context)
       IN  /\ assessments' = store_assessment(assessment)
           /\ entries' = log(entries,
                  AuditEntry("assess", assessment.risk_level, Len(assessments) + 1,
                             0, NoStep, TRUE))
    /\ last' = ToolCall("governor_assess", "", Len(assessments) + 1, NoStep, "ok")
    /\ UNCHANGED <<plans, approvals, now, calls>>

\* governor_log_action: risk_level is the text the caller gave; a text that
\* names no level counts as medium.  The entry links no assessment or plan.
governor_log_action(action, risk_level, success) ==
    /\ Len(entries) < MaxAudit
    /\ LET lowered == Lower(risk_level)
           level == IF lowered = <<"l", "o", "w">> THEN "low"
                    ELSE IF lowered = <<"h", "i", "g", "h">> THEN "high"
                    ELSE "medium"
       IN  /\ entries' = log(entries, AuditEntry(action, level, 0, 0, NoStep, success))
           /\ last' = OutCall("governor_log_action", 0, NoStep, "ok",
                              [logged |-> TRUE, risk_level |-> level, success |-> success])
    /\ UNCHANGED <<assessments, plans, approvals, now, calls>>

\* The plan that holds the step: governor_approve's search through list_plans()
PlanOfStep(step_id) ==
    IF \E p \in DOMAIN plans : HasStep(plans, p, step_id)
    THEN CHOOSE p \in DOMAIN plans :
             /\ HasStep(plans, p, step_id)
             /\ \A q \in 1 .. p - 1 : ~HasStep(plans, q, step_id)
    ELSE 0

\* What governor_approve answers: "error" for an unknown target type or target
GovernorApproveReturns(target_type, target_id) ==
    CASE target_type = "assessment" ->
             IF target_id[2] = 0 /\ target_id[1] \in DOMAIN assessments THEN "ok" ELSE "error"
      [] target_type = "plan" ->
             IF target_id[2] = 0 /\ target_id[1] \in DOMAIN plans THEN "ok" ELSE "error"
      [] target_type = "step" ->
             IF PlanOfStep(target_id) # 0 THEN "ok" ELSE "error"
      [] OTHER -> "error"

governor_approve(target_type, target_id, approved) ==
    LET ret == GovernorApproveReturns(target_type, target_id)
        arg == IF approved THEN "approve" ELSE "deny"
    IN  /\ IF ret = "error"
           THEN UNCHANGED <<plans, approvals, entries>>
           ELSE /\ Len(entries) < MaxAudit
                /\ approvals' =
                       store_approval(approvals, Approval(target_type, target_id, approved))
                /\ CASE target_type = "assessment" ->
                            /\ UNCHANGED plans
                            /\ entries' = log(entries,
                                   AuditEntry(arg, assessments[target_id[1]].risk_level,
                                              target_id[1], 0, NoStep, TRUE))
                     [] target_type = "plan" ->
                            /\ plans' = IF approved THEN ApprovePlan(plans, target_id[1])
                                        ELSE DenyPlan(plans, target_id[1])
                            /\ entries' = log(entries,
                                   AuditEntry(IF approved THEN "approve_plan" ELSE "deny_plan",
                                              RiskOf(plans[target_id[1]].assessment_id),
                                              0, target_id[1], NoStep, TRUE))
                     [] target_type = "step" ->
                            LET plan_id == PlanOfStep(target_id)
                            IN  /\ plans' = IF approved
                                            THEN ApproveStep(plans, plan_id, target_id)
                                            ELSE DenyStep(plans, plan_id, target_id)
                                /\ entries' = log(entries,
                                       AuditEntry(IF approved THEN "approve_step" ELSE "deny_step",
                                                  RiskOf(plans[plan_id].assessment_id),
                                                  0, plan_id, target_id, TRUE))
        /\ last' = ToolCall("governor_approve_" \o target_type, arg,
                            target_id[1], target_id, ret)
        /\ UNCHANGED <<assessments, now, calls>>

\* Variant: a validation that looks at the first step definition only.
CreatePlanReturnsFirstStepOnly(assessment_id, steps) ==
    IF assessment_id \notin DOMAIN assessments THEN "error"
    ELSE IF steps = <<>> THEN "error"
    ELSE IF Missing(steps[1].description) \/ Missing(steps[1].operation) THEN "error"
    ELSE "ok"

\* governor_create_plan's validation: "ok", or "error" before anything is stored
CreatePlanReturns(assessment_id, steps) ==
    IF assessment_id \notin DOMAIN assessments THEN "error"
    ELSE IF steps = <<>> THEN "error"
    ELSE IF \E i \in DOMAIN steps : Missing(steps[i].description) \/ Missing(steps[i].operation)
    THEN "error"
    ELSE "ok"

validated_steps(steps) ==
    [i \in DOMAIN steps |->
        [description |-> steps[i].description,
         operation |-> steps[i].operation,
         expected_outcome |-> Some(Get(steps[i].expected_outcome, DefaultExpected)),
         rollback_action |-> steps[i].rollback_action]]

governor_create_plan(assessment_id, steps, auto_submit) ==
    LET ret == CreatePlanReturns(assessment_id, steps)
        plan_id == Len(plans) + 1
        risk_level == RiskOf(assessment_id)
        created == CreatePlan(plans, assessment_id, validated_steps(steps))
        logged == log(entries,
                      AuditEntry("create_plan", risk_level, assessment_id, plan_id, NoStep, TRUE))
    IN  /\ IF ret = "error"
           THEN UNCHANGED <<plans, entries>>
           ELSE /\ Len(plans) < MaxPlans
                /\ Len(entries) + (IF auto_submit THEN 2 ELSE 1) <= MaxAudit
                /\ plans' = IF auto_submit THEN SubmitForApproval(created, plan_id) ELSE created
                /\ entries' = IF auto_submit
                              THEN log(logged,
                                       AuditEntry("submit_plan", risk_level, 0, plan_id,
                                                  NoStep, TRUE))
                              ELSE logged
        /\ last' = [ToolCall("governor_create_plan",
                              IF auto_submit THEN "auto_submit" ELSE "",
                              IF ret = "ok" THEN plan_id ELSE 0, NoStep, ret)
                         EXCEPT !.args = [assessment_id |-> assessment_id, steps |-> steps]]
        /\ UNCHANGED <<assessments, approvals, now, calls>>

\* Variant: a governor_execute_step without the check of the step's status.
ExecuteReturnsAnyStatus(plan_id, step_id, skip) ==
    IF ~HasStep(plans, plan_id, step_id) THEN "error" ELSE "ok"

\* What governor_execute_step answers
ExecuteReturns(plan_id, step_id, skip) ==
    IF ~HasStep(plans, plan_id, step_id) THEN "error"
    ELSE IF skip THEN "ok"
    ELSE IF plans[plan_id].steps[step_id[2]].status \notin {"approved", "pending"} THEN "error"
    ELSE "ok"

governor_execute_step(plan_id, step_id, actual_operation, actual_outcome, skip) ==
    LET ret == ExecuteReturns(plan_id, step_id, skip)
    IN  /\ IF ret = "error"
           THEN UNCHANGED <<plans, entries>>
           ELSE LET step == plans[plan_id].steps[step_id[2]]
                    risk_level == RiskOf(plans[plan_id].assessment_id)
                    deviation_report ==
                        detect(step,
                               IF actual_operation = <<>> THEN step.operation
                               ELSE actual_operation,
                               actual_outcome)
                    executing == StartStepExecution(plans, plan_id, step_id)
                IN  /\ Len(entries) < MaxAudit
                    /\ IF skip
                       THEN /\ plans' = update_step_status(plans, plan_id, step_id,
                                                           "skipped", None, None)
                            /\ entries' = log(entries,
                                   AuditEntry("skip_step", risk_level, 0, plan_id, step_id, TRUE))
                       ELSE /\ plans' =
                                   IF deviation_report.severity = "critical"
                                   THEN FailStep(executing, plan_id, step_id, CriticalDeviation)
                                   ELSE CompleteStep(executing, plan_id, step_id,
                                            IF actual_outcome = <<>> THEN Completed
                                            ELSE actual_outcome)
                            /\ entries' = log(entries,
                                   AuditEntry("execute_step", risk_level, 0, plan_id, step_id,
                                              TRUE))
        /\ last' = IF ret = "ok" /\ ~skip
                   THEN [ToolCall("governor_execute_step", "", plan_id, step_id, ret)
                             EXCEPT !.args = [actual_operation |-> actual_operation,
                                              actual_outcome |-> actual_outcome],
                                    !.out = detect(plans[plan_id].steps[step_id[2]],
                                                   IF actual_operation = <<>>
                                                   THEN plans[plan_id].steps[step_id[2]].operation
                                                   ELSE actual_operation,
                                                   actual_outcome)]
                   ELSE ToolCall("governor_execute_step", IF skip THEN "skip" ELSE "",
                                 plan_id, step_id, ret)
        /\ UNCHANGED <<assessments, approvals, now, calls>>

governor_abort(plan_id) ==
    /\ IF plan_id \notin DOMAIN plans
       THEN UNCHANGED <<plans, entries>>
       ELSE /\ Len(entries) < MaxAudit
            /\ plans' = AbortPlan(plans, plan_id)
            /\ entries' = log(entries,
                   AuditEntry("abort_plan", RiskOf(plans[plan_id].assessment_id),
                              0, plan_id, NoStep, TRUE))
    /\ last' = IF plan_id \in DOMAIN plans
               THEN OutCall("governor_abort", plan_id, NoStep, "ok",
                            AbortReturns(plans, plan_id))
               ELSE Call("governor_abort", plan_id, NoStep, "error")
    /\ UNCHANGED <<assessments, approvals, now, calls>>

\* ---------------------------------------------------------- specification
Init ==
    /\ assessments = <<>>
    /\ plans = <<>>
    /\ approvals = <<>>
    /\ entries = <<>>
    /\ now = 1
    /\ last = Call("init", 0, NoStep, "ok")
    /\ calls = <<>>

\* Time passes between two calls.
Tick ==
    /\ now < MaxClock
    /\ now' = now + 1
    /\ last' = Call("tick", 0, NoStep, "ok")
    /\ UNCHANGED <<assessments, plans, approvals, entries, calls>>

\* The plan controller, called directly.
Next ==
    \/ Tick
    \/ \E a \in AssessmentIds, defs \in StepLists : create_plan(a, defs)
    \/ \E p \in PlanIds : submit_for_approval(p)
    \/ \E p \in PlanIds : approve_plan(p)
    \/ \E p \in PlanIds : deny_plan(p)
    \/ \E p \in PlanIds, s \in StepIds : approve_step(p, s)
    \/ \E p \in PlanIds, s \in StepIds : deny_step(p, s)
    \/ \E p \in PlanIds, s \in StepIds : start_step_execution(p, s)
    \/ \E p \in PlanIds, s \in StepIds, r \in Results : complete_step(p, s, r)
    \/ \E p \in PlanIds, s \in StepIds, e \in Errors : fail_step(p, s, e)
    \/ \E p \in PlanIds : abort_plan(p)

Spec == Init /\ [][Next]_vars

\* The tools, as the server exposes them.
ToolNext ==
    \/ Tick
    \/ \E o \in Operations : governor_assess(o, <<>>)
    \/ \E t \in ApproveTargets, a \in BOOLEAN : governor_approve(t[1], t[2], a)
    \/ \E a \in AssessmentIds, defs \in ToolStepLists, auto \in BOOLEAN :
           governor_create_plan(a, defs, auto)
    \/ \E p \in PlanIds, s \in StepIds, o \in ActualOperations, r \in ActualOutcomes,
          skip \in BOOLEAN :
           governor_execute_step(p, s, o, r, skip)
    \/ \E p \in PlanIds : governor_abort(p)

ToolSpec == Init /\ [][ToolNext]_vars

\* The audit log alone, its operations called in any order.
AuditNext ==
    \/ Tick
    \/ \E input \in LogInputs : audit_log(input)
    \/ \E q \in Queries : get_entries(q)
    \/ get_stats
    \/ clear

AuditSpec == Init /\ [][AuditNext]_vars

\* Logging next to a plan that is created, fails and is aborted.
LogSpec ==
    Init /\ [][
    \/ Tick
    \/ \E defs \in StepLists : Len(defs) = 1 /\ create_plan(1, defs)
    \/ \E s \in StepIds, e \in Errors : fail_step(s[1], s, e)
    \/ \E p \in PlanIds : abort_plan(p)
    \/ \E input \in LogInputs : Len(entries) < MaxLogged /\ audit_log(input)
    \/ \E success \in BOOLEAN :
           /\ Len(entries) < MaxLogged
           /\ governor_log_action("modify_file",
                                  IF success THEN <<"H", "I", "G", "H">>
                                  ELSE <<"u", "r", "g", "e", "n", "t">>,
                                  success)
    ]_vars

\* Assessing, with the assessor alone and through the tool, next to a plan
\* and its approval.
AssessSpec ==
    Init /\ [][
    \/ Tick
    \/ \E defs \in StepLists : Len(defs) = 1 /\ create_plan(1, defs)
    \/ \E p \in PlanIds : approve_plan(p)
    \/ \E o \in Operations : assess_operation(o, <<>>)
    \/ \E o \in Operations : governor_assess(o, <<>>)
    ]_vars

\* The plan controller with the two status queries.
StatusSpec ==
    Init /\ [][
    \/ Next
    \/ \E p \in 1 .. MaxPlans + 1 : get_plan_status(p)
    \/ get_active_plans
    ]_vars

\* The classifiers, the assessor and the deviation detector, applied to inputs.
CoreSpec ==
    Init /\ [][
    \/ Tick
    \/ \E r \in DOMAIN RESOURCE_RISK_SCORES, a \in DOMAIN ACTION_MULTIPLIERS,
          sc \in DOMAIN SCOPE_MULTIPLIERS :
           assess_classified(r, a, sc)
    \/ \E o \in Operations : assess_operation(o, <<>>)
    \/ \E i \in ClassifierInputs : classify_operation(i[1], i[2])
    \/ \E o \in OperationPairs, e \in {<<>>, DefaultExpected},
          r \in {<<>>, OutcomeError, Completed} :
           detect_step(o[1], e, o[2], r)
    \/ \E deviations \in FindingLists : calculate_severity(deviations)
    ]_vars

\* Approvals of a plan, of the assessment of the same id and of a step,
\* stored and asked for in any order.
ApprovalSpec ==
    Init /\ [][
    \/ Tick
    \/ \E t \in {"plan", "assessment"}, approved \in BOOLEAN, at \in 1 .. now :
           session_store_approval(t, TargetId(1), approved, at)
    \/ \E approved \in BOOLEAN, at \in 1 .. now :
           session_store_approval("step", <<1, 1>>, approved, at)
    \/ \E t \in {"plan", "assessment"} : is_approved(t, TargetId(1))
    \/ is_approved("step", <<1, 1>>)
    ]_vars

\* A plan is created, approved and its steps started or completed by single
\* calls; then complete_step calls on the plan in progress run at once, their
\* sub-steps in any order, and nothing else touches the plan.
ConcurrentSpec ==
    Init /\ [][
    \/ Tick
    \/ \E defs \in StepLists : calls = <<>> /\ create_plan(1, defs)
    \/ \E p \in PlanIds : calls = <<>> /\ approve_plan(p)
    \/ \E s \in StepIds : calls = <<>> /\ start_step_execution(s[1], s)
    \/ \E s \in StepIds, r \in Results : calls = <<>> /\ complete_step(s[1], s, r)
    \/ \E s \in StepIds, r \in Results :
           /\ s[1] \in DOMAIN plans
           /\ plans[s[1]].status = "in_progress"
           /\ complete_step_enter(s[1], s, r)
    \/ \E c \in DOMAIN calls : complete_step_update(c)
    \/ \E c \in DOMAIN calls : complete_step_test(c)
    \/ \E c \in DOMAIN calls : complete_step_set(c)
    ]_vars

\* ------------------------------------------------------------ properties
StepStatuses(plan) == [i \in DOMAIN plan.steps |-> plan.steps[i].status]

\* The moves of a plan's status that the state machine of PlanStatus allows:
\* draft -> awaiting_approval -> in_progress -> {completed, aborted, failed},
\* and deny/abort from a status that is not terminal.
ForwardMoves ==
    { <<"draft", "awaiting_approval">>, <<"awaiting_approval", "in_progress">>,
      <<"in_progress", "completed">>, <<"in_progress", "aborted">>,
      <<"in_progress", "failed">>,
      <<"draft", "aborted">>, <<"awaiting_approval", "aborted">> }

TerminalStatus == {"completed", "aborted", "failed"}

\* C1: in every step of every behaviour, a plan's status stays as it is or makes
\* one of the forward moves; in particular it never goes back, never goes from
\* draft to in_progress and never leaves completed, aborted or failed.
C1_StatusOnlyMovesForward ==
    [][\A p \in DOMAIN plans :
          \/ plans'[p].status = plans[p].status
          \/ <<plans[p].status, plans'[p].status>> \in ForwardMoves]_vars

\* C2: whenever a step's status becomes executing, completed or failed, the
\* plan was in_progress and the step was approved in the state of the call.
C2_ExecutionGatedByApproval ==
    [][\A p \in DOMAIN plans : \A i \in DOMAIN plans[p].steps :
          (/\ plans'[p].steps[i].status \in {"executing", "completed", "failed"}
           /\ plans'[p].steps[i].status # plans[p].steps[i].status)
          => (/\ plans[p].status = "in_progress"
              /\ plans[p].steps[i].status = "approved")]_vars

\* C3: a submit_for_approval call on a stored plan sets a draft plan to
\* awaiting_approval, and on a plan in any other status raises an error and
\* leaves the plan (its status and every step's status) as it was.
C3_SubmitOnlyFromDraft ==
    [][(last'.op = "submit_for_approval" /\ last'.pid \in DOMAIN plans)
       => IF plans[last'.pid].status = "draft"
          THEN /\ last'.ret = "ok"
               /\ plans'[last'.pid].status = "awaiting_approval"
               /\ StepStatuses(plans'[last'.pid]) = StepStatuses(plans[last'.pid])
          ELSE /\ last'.ret = "error"
               /\ plans'[last'.pid].status = plans[last'.pid].status
               /\ StepStatuses(plans'[last'.pid]) = StepStatuses(plans[last'.pid])]_vars

\* A submit_for_approval has just been refused on a plan that is in progress.
C3_Witness ==
    /\ last.op = "submit_for_approval"
    /\ last.ret = "error"
    /\ plans[last.pid].status = "in_progress"
    /\ plans[last.pid].steps # <<>>

\* The approvals after a call are those before it and one more, for the plan,
\* with the given decision.
OneMorePlanApproval(plan_id, approved) ==
    /\ Len(approvals') = Len(approvals) + 1
    /\ SubSeq(approvals', 1, Len(approvals)) = approvals
    /\ approvals'[Len(approvals')].target_type = "plan"
    /\ approvals'[Len(approvals')].target_id = TargetId(plan_id)
    /\ approvals'[Len(approvals')].approved = approved

\* C4: an approve_plan call on a stored plan stores exactly one new Approval
\* (plan, approved) and leaves the plan in_progress with every step approved.
C4_ApprovePlan ==
    [][(last'.op = "approve_plan" /\ last'.pid \in DOMAIN plans)
       => /\ OneMorePlanApproval(last'.pid, TRUE)
          /\ plans'[last'.pid].status = "in_progress"
          /\ \A i \in DOMAIN plans'[last'.pid].steps :
                 plans'[last'.pid].steps[i].status = "approved"]_vars

\* approve_plan has just approved a plan that has steps.
C4_Witness ==
    /\ last.op = "approve_plan"
    /\ last.ret = "ok"
    /\ Len(plans[last.pid].steps) = MaxSteps
    /\ Len(approvals) = 1

\* C5: a deny_plan call on a stored plan stores exactly one new Approval (plan,
\* denied), sets the plan aborted with a completion timestamp, and changes no
\* step's status.
C5_DenyPlan ==
    [][(last'.op = "deny_plan" /\ last'.pid \in DOMAIN plans)
       => /\ OneMorePlanApproval(last'.pid, FALSE)
          /\ plans'[last'.pid].status = "aborted"
          /\ plans'[last'.pid].completed_at # NoTime
          /\ StepStatuses(plans'[last'.pid]) = StepStatuses(plans[last'.pid])]_vars

\* deny_plan has just denied a plan that still has a pending step.
C5_Witness ==
    /\ last.op = "deny_plan"
    /\ last.ret = "ok"
    /\ plans[last.pid].status = "aborted"
    /\ \E i \in DOMAIN plans[last.pid].steps : plans[last.pid].steps[i].status = "pending"

\* C6: a complete_step call on a stored step leaves the step completed with the
\* given result; after it the plan is completed, with a completion timestamp,
\* exactly when every step is completed or skipped, and otherwise the plan's
\* status is the one before the call.
C6_CompleteStep ==
    [][(last'.op = "complete_step" /\ last'.ret = "ok")
       => LET before == plans[last'.pid]
              after == plans'[last'.pid]
          IN  /\ after.steps[last'.sid[2]].status = "completed"
              /\ after.steps[last'.sid[2]].result = Some(last'.text)
              /\ (after.status = "completed" /\ after.completed_at # NoTime)
                     <=> all_completed(after)
              /\ ~all_completed(after) => after.status = before.status]_vars

\* C7: a plan's completion timestamp is set exactly in the terminal statuses.
C7_CompletedAtIffTerminal ==
    \A p \in DOMAIN plans :
        (plans[p].completed_at # NoTime) <=> (plans[p].status \in TerminalStatus)

\* C8: once a plan's completion timestamp is set, no step of a behaviour
\* changes it.
C8_CompletedAtSetOnce ==
    [][\A p \in DOMAIN plans :
          plans[p].completed_at # NoTime
          => plans'[p].completed_at = plans[p].completed_at]_vars

\* C9: a fail_step call on a stored step leaves that step failed with the given
\* error text and the plan failed, whatever the other steps' statuses.
C9_FailStep ==
    [][(last'.op = "fail_step" /\ last'.ret = "ok")
       => /\ plans'[last'.pid].steps[last'.sid[2]].status = "failed"
          /\ plans'[last'.pid].steps[last'.sid[2]].error = Some(last'.text)
          /\ plans'[last'.pid].status = "failed"]_vars

\* fail_step has just failed a plan that has another step pending or approved.
C9_Witness ==
    /\ last.op = "fail_step"
    /\ last.ret = "ok"
    /\ plans[last.pid].status = "failed"
    /\ \E i \in DOMAIN plans[last.pid].steps :
           /\ i # last.sid[2]
           /\ plans[last.pid].steps[i].status \in {"pending", "approved"}

\* C10: a plan that is failed stays failed in every later step of a behaviour.
C10_FailedIsTerminal ==
    [][\A p \in DOMAIN plans :
          plans[p].status = "failed" => plans'[p].status = "failed"]_vars

\* C11: the rollback suggestions abort_plan returns are exactly the steps that
\* are completed and carry a non-empty rollback action, each once, later steps
\* first; a step without a rollback action or in another status is not listed.
C11_RollbackSuggestions ==
    (last.op = "abort_plan" /\ last.ret = "ok")
    => LET plan == plans[last.pid]
           listed == last.out.rollback_suggestions
           wanted == {i \in DOMAIN plan.steps :
                          /\ plan.steps[i].status = "completed"
                          /\ plan.steps[i].rollback_action \notin {None, Some(<<>>)}}
       IN  /\ {listed[k].step_id : k \in DOMAIN listed} = {<<last.pid, i>> : i \in wanted}
           /\ Len(listed) = Cardinality(wanted)
           /\ \A k \in DOMAIN listed :
                  /\ listed[k].step_order = plan.steps[listed[k].step_id[2]].order
                  /\ listed[k].rollback_action =
                         plan.steps[listed[k].step_id[2]].rollback_action[1]
           /\ \A j, k \in DOMAIN listed :
                  j < k => listed[j].step_id[2] > listed[k].step_id[2]

\* abort_plan has just returned two suggestions, the second step's first.
C11_Witness ==
    /\ last.op = "abort_plan"
    /\ last.ret = "ok"
    /\ Len(last.out.rollback_suggestions) = 2
    /\ last.out.rollback_suggestions[1].step_order = 2

\* C12: an abort_plan call on a stored plan turns every pending or approved
\* step into skipped, leaves every other step's status as it was, and leaves
\* the plan aborted with a completion timestamp.
C12_AbortPlanFrame ==
    [][(last'.op = "abort_plan" /\ last'.ret = "ok")
       => LET before == plans[last'.pid]
              after == plans'[last'.pid]
          IN  /\ DOMAIN after.steps = DOMAIN before.steps
              /\ \A i \in DOMAIN before.steps :
                     after.steps[i].status =
                         IF before.steps[i].status \in {"pending", "approved"}
                         THEN "skipped"
                         ELSE before.steps[i].status
              /\ after.status = "aborted"
              /\ after.completed_at # NoTime]_vars

\* abort_plan has just aborted a plan with a skipped step and an executing one.
C12_Witness ==
    /\ last.op = "abort_plan"
    /\ last.ret = "ok"
    /\ \E i, j \in DOMAIN plans[last.pid].steps :
           /\ plans[last.pid].steps[i].status = "skipped"
           /\ plans[last.pid].steps[j].status = "executing"

\* C13: an approve_step or deny_step call on a stored step stores exactly one
\* new Approval, for that step, sets that step approved or denied, and changes
\* neither the plan's status nor any other step's status.
C13_StepApprovalFrame ==
    [][(last'.op \in {"approve_step", "deny_step"} /\ last'.ret = "ok")
       => LET before == plans[last'.pid]
              after == plans'[last'.pid]
              n == Len(approvals')
          IN  /\ n = Len(approvals) + 1
              /\ SubSeq(approvals', 1, n - 1) = approvals
              /\ approvals'[n].target_type = "step"
              /\ approvals'[n].target_id = last'.sid
              /\ approvals'[n].approved = (last'.op = "approve_step")
              /\ after.steps[last'.sid[2]].status =
                     IF last'.op = "approve_step" THEN "approved" ELSE "denied"
              /\ after.status = before.status
              /\ \A i \in DOMAIN before.steps :
                     i # last'.sid[2] => after.steps[i].status = before.steps[i].status]_vars

\* approve_step has just approved one step of a draft plan; the other is pending.
C13_Witness ==
    /\ last.op = "approve_step"
    /\ last.ret = "ok"
    /\ plans[last.pid].status = "draft"
    /\ \E i \in DOMAIN plans[last.pid].steps :
           i # last.sid[2] /\ plans[last.pid].steps[i].status = "pending"

\* The moves of a step's status that the state machine of StepStatus allows:
\* pending -> approved -> executing -> {completed, failed}, and denied or
\* skipped from pending or approved.
StepMoves ==
    { <<"pending", "approved">>, <<"approved", "executing">>,
      <<"executing", "completed">>, <<"executing", "failed">>,
      <<"pending", "denied">>, <<"approved", "denied">>,
      <<"pending", "skipped">>, <<"approved", "skipped">> }

\* C14: in every step of every behaviour, a step's status stays as it is or
\* makes one of the moves of the step state machine; so a step that left
\* pending and approved never comes back, and a completed or failed step is
\* never skipped.
C14_StepStatusMoves ==
    [][\A p \in DOMAIN plans : \A i \in DOMAIN plans[p].steps :
          \/ plans'[p].steps[i].status = plans[p].steps[i].status
          \/ <<plans[p].steps[i].status, plans'[p].steps[i].status>> \in StepMoves]_vars

\* The part of C14 about going back: a step that is completed, failed,
\* executing, denied or skipped is never approved or pending in the next state.
C14_NeverBack ==
    [][\A p \in DOMAIN plans : \A i \in DOMAIN plans[p].steps :
          plans[p].steps[i].status \notin {"pending", "approved"}
          => plans'[p].steps[i].status \notin {"pending", "approved"}]_vars

C16_CreatePlanAllOrNothing ==
    [][(/\ last'.op = "governor_create_plan"
        /\ \/ last'.args.assessment_id \notin DOMAIN assessments
           \/ last'.args.steps = <<>>
           \/ \E i \in DOMAIN last'.args.steps :
                  \/ last'.args.steps[i].description \in {None, Some(<<>>)}
                  \/ last'.args.steps[i].operation \in {None, Some(<<>>)})
       => /\ last'.ret = "error"
          /\ plans' = plans
          /\ entries' = entries
          /\ assessments' = assessments
          /\ approvals' = approvals]_vars

\* governor_create_plan has just refused a list whose second definition has no
\* operation, after a first definition that is complete.
C16_Witness ==
    /\ last.op = "governor_create_plan"
    /\ last.ret = "error"
    /\ last.args.assessment_id \in DOMAIN assessments
    /\ Len(last.args.steps) = 2
    /\ last.args.steps[1].description # None
    /\ last.args.steps[1].operation # None
    /\ last.args.steps[2].operation = None

\* The call c, made in the current state, names a plan that is not stored or a
\* step that is not a step of the plan it names.
NotFound(c) ==
    CASE c.op \in {"submit_for_approval", "approve_plan", "deny_plan", "abort_plan",
                   "governor_abort"} ->
             c.pid \notin DOMAIN plans
      [] c.op = "governor_approve_plan" ->
             c.sid[2] # 0 \/ c.pid \notin DOMAIN plans
      [] c.op \in {"approve_step", "deny_step", "start_step_execution", "complete_step",
                   "fail_step", "governor_execute_step", "governor_approve_step"} ->
             ~HasStep(plans, c.pid, c.sid)
      [] OTHER -> FALSE

\* C17: a Plan Controller call that names an unknown plan, or a step that is
\* not in the plan, returns the not-found sentinel (a tool: an error) and
\* changes nothing: no approval is stored, no plan or step changes, and no
\* audit entry is appended.
C17_NotFoundChangesNothing ==
    [][NotFound(last')
       => /\ last'.ret = IF last'.op \in
                              {"governor_abort", "governor_approve_plan",
                               "governor_approve_step", "governor_execute_step"}
                         THEN "error" ELSE "none"
          /\ plans' = plans
          /\ approvals' = approvals
          /\ entries' = entries
          /\ assessments' = assessments]_vars

\* fail_step has just been called with a step id that is not in the stored plan.
C17_Witness ==
    /\ last.op = "fail_step"
    /\ last.ret = "none"
    /\ last.pid \in DOMAIN plans
    /\ ~HasStep(plans, last.pid, last.sid)

\* What identifies a step and is fixed at creation: its place in the plan and
\* what it was created with.
StepIdentity(plan) ==
    [i \in DOMAIN plan.steps |->
        <<plan.steps[i].order, plan.steps[i].operation,
          plan.steps[i].expected_outcome, plan.steps[i].rollback_action>>]

\* C18: a create_plan call appends one plan in status draft with one pending
\* step per definition, numbered 1..n in definition order; and no step of any
\* behaviour adds, removes or reorders the steps of a stored plan or changes a
\* step's order number.
C18_StepsFixedAtCreation ==
    [][/\ last'.op = "create_plan"
          => LET n == Len(plans')
                 defs == last'.args.steps
             IN  /\ n = Len(plans) + 1
                 /\ SubSeq(plans', 1, n - 1) = plans
                 /\ plans'[n].status = "draft"
                 /\ Len(plans'[n].steps) = Len(defs)
                 /\ \A i \in DOMAIN defs :
                        /\ plans'[n].steps[i].status = "pending"
                        /\ plans'[n].steps[i].order = i
                        /\ plans'[n].steps[i].operation =
                               (IF defs[i].operation = None THEN <<>>
                                ELSE defs[i].operation[1])
                        /\ plans'[n].steps[i].rollback_action = defs[i].rollback_action
       /\ \A p \in DOMAIN plans :
              /\ p \in DOMAIN plans'
              /\ StepIdentity(plans'[p]) = StepIdentity(plans[p])
              /\ \A i \in DOMAIN plans[p].steps : plans[p].steps[i].order = i]_vars

\* A plan created with two steps has been run to completion.
C18_Witness ==
    /\ last.op = "complete_step"
    /\ last.ret = "ok"
    /\ plans[last.pid].status = "completed"
    /\ Len(plans[last.pid].steps) = 2
    /\ plans[last.pid].steps[2].order = 2

\* C19: in every step of every behaviour of the audit log, the entries before
\* the step are still there after it, unchanged and in the same places; so the
\* log never gets shorter.
C19_AppendOnly ==
    [][/\ Len(entries') >= Len(entries)
       /\ SubSeq(entries', 1, Len(entries)) = entries]_vars

\* The entry e passes every filter the query q gives.
Passes(e, q) ==
    /\ q.risk_level # None => e.risk_level = q.risk_level[1]
    /\ q.action # None => e.action = q.action[1]
    /\ q.since # None => e.timestamp >= q.since[1]
    /\ q.until # None => e.timestamp <= q.until[1]
    /\ q.assessment_id # None => e.assessment_id = q.assessment_id[1]
    /\ q.plan_id # None => e.plan_id = q.plan_id[1]
    /\ q.success_only => e.success
    /\ q.failures_only => ~e.success

\* The entries of es that pass q, those of time t first, then the older ones;
\* entries of the same time in the order of the log.
RECURSIVE NewestFirst(_, _, _)
NewestFirst(es, q, t) ==
    LET AtT(e) == Passes(e, q) /\ e.timestamp = t
    IN  IF t < 0 THEN <<>> ELSE SelectSeq(es, AtT) \o NewestFirst(es, q, t - 1)

\* C20: a get_entries call leaves the log as it was, and what it returns is
\* the entries passing all the given filters, newest first, without the first
\* offset of them and cut to at most limit entries; the result is ordered by
\* timestamp descending.
C20_GetEntries ==
    [][last'.op = "get_entries"
       => LET q == last'.args
              out == last'.out
              passing == Cardinality({i \in DOMAIN entries : Passes(entries[i], q)})
              rest == IF passing > q.offset THEN passing - q.offset ELSE 0
              kept == IF q.limit # None /\ q.limit[1] < rest THEN q.limit[1] ELSE rest
          IN  /\ entries' = entries
              /\ out = SubSeq(NewestFirst(entries, q, now), q.offset + 1, q.offset + kept)
              /\ \A i, j \in DOMAIN out :
                     i < j => out[i].timestamp >= out[j].timestamp]_vars

\* A page in the middle: a filter that some entries fail and three pass, the
\* newest of the three skipped, the next one returned and the oldest cut off.
C20_Witness ==
    /\ last.op = "get_entries"
    /\ last.args.offset = 1
    /\ last.args.limit = Some(1)
    /\ \E i \in DOMAIN entries : ~Passes(entries[i], last.args)
    /\ \E i, j, k \in DOMAIN entries :
           /\ i < j /\ j < k
           /\ Passes(entries[i], last.args)
           /\ Passes(entries[j], last.args)
           /\ Passes(entries[k], last.args)
           /\ entries[i].timestamp < entries[j].timestamp
           /\ entries[j].timestamp = entries[k].timestamp
           /\ entries[j] # entries[k]
           /\ last.out = <<entries[k]>>

\* C21: in every state, whatever the plan an entry names (unknown, failed,
\* aborted), AuditLogger.log and governor_log_action can be called, and each
\* call adds exactly one entry behind the entries there were.
C21_LogNeverBlocked ==
    /\ [](Len(entries) < MaxAudit
            => /\ \A input \in LogInputs : ENABLED audit_log(input)
               /\ \A success \in BOOLEAN :
                      ENABLED governor_log_action("modify_file", <<"l", "o", "w">>, success))
    /\ [][last'.op \in {"log", "governor_log_action"}
            => /\ Len(entries') = Len(entries) + 1
               /\ SubSeq(entries', 1, Len(entries)) = entries]_vars

\* An entry logged for a plan that has failed or was aborted, the newest of
\* the log.
C21_Witness ==
    /\ last.op = "log"
    /\ last.pid \in DOMAIN plans
    /\ plans[last.pid].status \in {"failed", "aborted"}
    /\ entries # <<>>
    /\ entries[Len(entries)].plan_id = last.pid

\* C22: is_approved(target) is false when no approval is stored for the
\* target's kind and id; otherwise it is the approved flag of an approval of
\* the target that no approval of the target is newer than (of the first
\* stored one, if several have that latest timestamp).
C22_IsApproved ==
    last.op = "is_approved"
    => LET Of == {i \in DOMAIN approvals :
                      /\ approvals[i].target_type = last.arg
                      /\ approvals[i].target_id = last.sid}
           Latest == {i \in Of : \A j \in Of : approvals[j].timestamp <= approvals[i].timestamp}
       IN  /\ Of = {} => last.out = FALSE
           /\ Of # {} => \E i \in Latest :
                             /\ \A j \in Latest : i <= j
                             /\ last.out = approvals[i].approved

\* The plan was approved first and denied at a later time, an approval of the
\* assessment of the same id stored between the two: is_approved("plan") is
\* false.
C22_Witness ==
    /\ last.op = "is_approved"
    /\ last.arg = "plan"
    /\ last.out = FALSE
    /\ Len(approvals) = 3
    /\ approvals[1].target_type = "plan" /\ approvals[1].approved
    /\ approvals[2].target_type = "assessment" /\ approvals[2].approved
    /\ approvals[3].target_type = "plan" /\ ~approvals[3].approved
    /\ approvals[1].timestamp < approvals[3].timestamp

\* C23: for every base score 0..5, action multiplier 0.5, 1.5, 2.5, 3.0 and
\* scope multiplier 1.0, 1.5, 2.0, 3.0 (here in halves, the score in quarters),
\* the score is their product and the level is low iff score < 3, medium iff
\* 3 <= score <= 8, high iff score > 8.
C23_ScoreAndLevel ==
    last.op = "assess_classified"
    => LET base == last.args.resource[2]
           action == last.args.action[2]
           scope == last.args.scope[2]
           score == last.out.risk_score
           level == last.out.risk_level
       IN  /\ base \in 0 .. 5
           /\ action \in {1, 3, 5, 6}
           /\ scope \in {2, 3, 4, 6}
           /\ score = base * action * scope
           /\ level \in {"low", "medium", "high"}
           /\ level = "low" <=> score < 4 * 3
           /\ level = "medium" <=> (4 * 3 <= score /\ score <= 4 * 8)
           /\ level = "high" <=> score > 4 * 8

\* A score of exactly 3.0 (a local file, executed, single scope): medium.
C23_Witness ==
    /\ last.op = "assess_classified"
    /\ last.args.resource = <<"local_file", 1>>
    /\ last.args.action = <<"execute", 6>>
    /\ last.args.scope = <<"single", 2>>
    /\ last.out = [risk_score |-> 12, risk_level |-> "medium"]

\* C24: assessing "delete all records from user_sessions table" with an empty
\* context gives resource database, action delete, scope collection, score
\* 20.0 (80 quarters) and level high.
C24_DeleteAllRecords ==
    (last.op = "assess" /\ last.text = OpDeleteAll /\ last.args = <<>>)
    => /\ last.out.resource_type = "database"
       /\ last.out.action_type = "delete"
       /\ last.out.scope = "collection"
       /\ last.out.risk_score = 4 * 20
       /\ last.out.risk_level = "high"

\* C25: classify returns one resource type, the first that applies in the
\* order system command (5), database (4), sensitive file (3), external API
\* (2), file heuristic (1), memory (0), with the score of that type: a text
\* matching a system-command rule is a system command whatever else it
\* matches, one matching a database rule and the file heuristic is a database.
C25_FirstMatchWins ==
    last.op = "classify"
    => LET combined == Strip(Join(last.text, last.args))
           system == matches_any_pattern(combined, SYSTEM_COMMAND_PATTERNS)
           database == matches_any_pattern(combined, DATABASE_PATTERNS)
           sensitive == matches_any_pattern(combined, SENSITIVE_FILE_PATTERNS)
           api == matches_any_pattern(combined, API_PATTERNS)
           file == _is_file_operation(combined)
           type == last.out.resource[1]
           score == last.out.resource[2]
       IN  /\ system => type = "system_command"
           /\ (~system /\ database) => type = "database"
           /\ (~system /\ ~database /\ sensitive) => type = "sensitive_file"
           /\ (~system /\ ~database /\ ~sensitive /\ api) => type = "external_api"
           /\ (~system /\ ~database /\ ~sensitive /\ ~api /\ file) => type = "local_file"
           /\ (~system /\ ~database /\ ~sensitive /\ ~api /\ ~file) => type = "memory"
           /\ <<type, score>> \in
                  { <<"system_command", 5>>, <<"database", 4>>, <<"sensitive_file", 3>>,
                    <<"external_api", 2>>, <<"local_file", 1>>, <<"memory", 0>> }

\* A text that matches a system-command rule, a database rule and the file
\* heuristic, classified as a system command.
C25_Witness ==
    /\ last.op = "classify"
    /\ last.out.resource = <<"system_command", 5>>
    /\ matches_any_pattern(Strip(Join(last.text, last.args)), DATABASE_PATTERNS)
    /\ _is_file_operation(Strip(Join(last.text, last.args)))

\* The same for a database rule with the file heuristic and no system rule.
C25_WitnessDatabase ==
    /\ last.op = "classify"
    /\ last.out.resource = <<"database", 4>>
    /\ _is_file_operation(Strip(Join(last.text, last.args)))

\* C26: classify_action answers read, multiplier 0.5 (one half), for every
\* operation that matches a read-only pattern, "cat config.yaml" among them,
\* whatever keywords the operation contains.
C26_ReadOnlyFirst ==
    last.op = "classify"
    => /\ matches_any_pattern(last.text, READ_ONLY_PATTERNS) => last.out.action = <<"read", 1>>
       /\ last.text = OpCat => last.out.action = <<"read", 1>>

\* A read-only operation that holds an execute, a delete and a write keyword.
C26_Witness ==
    /\ last.op = "classify"
    /\ matches_any_pattern(last.text, READ_ONLY_PATTERNS)
    /\ ContainsAny(Lower(last.text), EXECUTE_KEYWORDS)
    /\ ContainsAny(Lower(last.text), DELETE_KEYWORDS)
    /\ ContainsAny(Lower(last.text), WRITE_KEYWORDS)
    /\ last.out.action = <<"read", 1>>

\* C27: whenever the actual outcome holds an error indicator, detect reports
\* a deviation of severity critical, whatever the operations and whatever the
\* expected outcome of the step, the empty one included.
C27_ErrorOutcomeIsCritical ==
    (last.op = "detect" /\ ContainsAny(Lower(last.args.actual_outcome), error_indicators))
    => /\ last.out.report.severity = "critical"
       /\ last.out.report.has_deviation

\* The same where the step says what outcome it expects.
C27_ExpectedOutcomeGiven ==
    (/\ last.op = "detect"
     /\ ContainsAny(Lower(last.args.actual_outcome), error_indicators)
     /\ last.args.expected # <<>>)
    => /\ last.out.report.severity = "critical"
       /\ last.out.report.has_deviation

\* C28: the operation check finds nothing when the planned and the actual
\* text are the same once in lower case with whitespace collapsed, or when
\* the similarity of their word sets (1 for two empty sets, 0 for an empty and
\* a non-empty one, else |intersection| / |union|) is at least 0.9; it finds
\* a minor deviation for a similarity from 0.7 up to 0.9 and a major one
\* below 0.7.
C28_OperationFinding ==
    last.op = "detect"
    => LET planned == _normalize(last.args.planned)
           actual == _normalize(last.args.actual_operation)
           words1 == {Split(planned)[i] : i \in DOMAIN Split(planned)}
           words2 == {Split(actual)[i] : i \in DOMAIN Split(actual)}
           both == Cardinality(words1 \cap words2)
           all == Cardinality(words1 \cup words2)
           \* similarity >= n / 10
           AtLeast(n) == IF all = 0 THEN TRUE ELSE 10 * both >= n * all
       IN  last.out.operation =
               IF planned = actual \/ AtLeast(9) THEN None
               ELSE IF AtLeast(7) THEN Some("minor")
               ELSE Some("major")

\* The same where neither text is the empty string.
C28_BothTextsGiven ==
    (last.op = "detect" /\ last.args.planned # <<>> /\ last.args.actual_operation # <<>>)
    => LET planned == _normalize(last.args.planned)
           actual == _normalize(last.args.actual_operation)
           words1 == {Split(planned)[i] : i \in DOMAIN Split(planned)}
           words2 == {Split(actual)[i] : i \in DOMAIN Split(actual)}
           both == Cardinality(words1 \cap words2)
           all == Cardinality(words1 \cup words2)
           AtLeast(n) == IF all = 0 THEN TRUE ELSE 10 * both >= n * all
       IN  last.out.operation =
               IF planned = actual \/ AtLeast(9) THEN None
               ELSE IF AtLeast(7) THEN Some("minor")
               ELSE Some("major")

\* C29: get_plan_status reports is_active exactly for a plan that is
\* awaiting_approval or in_progress, and a step histogram that gives for each
\* status the number of the plan's steps in it, the counts adding up to the
\* number of steps; get_active_plans returns exactly the stored plans in
\* those two statuses.
C29_StatusReports ==
    /\ (last.op = "get_plan_status" /\ last.ret = "ok")
       => LET plan == plans[last.pid]
              status == last.out[1]
              count == status.step_summary
          IN  /\ status.is_active <=> plan.status \in {"awaiting_approval", "in_progress"}
              /\ DOMAIN count = StepStatus
              /\ \A st \in StepStatus :
                     count[st] = Cardinality({i \in DOMAIN plan.steps :
                                                 plan.steps[i].status = st})
              /\ count["pending"] + count["approved"] + count["denied"]
                     + count["executing"] + count["completed"] + count["failed"]
                     + count["skipped"] = Len(plan.steps)
    /\ last.op = "get_active_plans"
       => /\ {last.out[i] : i \in DOMAIN last.out}
                 = {p \in DOMAIN plans :
                        plans[p].status \in {"awaiting_approval", "in_progress"}}
          /\ \A i, j \in DOMAIN last.out : last.out[i] = last.out[j] => i = j

\* The report on a plan in progress with one step completed and one approved.
C29_Witness ==
    /\ last.op = "get_plan_status"
    /\ last.ret = "ok"
    /\ plans[last.pid].status = "in_progress"
    /\ last.out[1].is_active
    /\ last.out[1].step_summary["completed"] = 1
    /\ last.out[1].step_summary["approved"] = 1

\* The active plans, one, asked for while the plan awaits approval.
C29_WitnessActivePlans ==
    /\ last.op = "get_active_plans"
    /\ last.out = <<1>>
    /\ plans[1].status = "awaiting_approval"

\* C30: RiskAssessor.assess changes no store.  governor_assess adds exactly
\* one assessment to the session and appends exactly one audit entry, of
\* action "assess", with the id and the risk level of that assessment; plans
\* (with their steps) and approvals stay as they were.
C30_AssessEffects ==
    [][/\ last'.op = "assess"
          => UNCHANGED <<assessments, plans, approvals, entries>>
       /\ last'.op = "governor_assess"
          => /\ Len(assessments') = Len(assessments) + 1
             /\ SubSeq(assessments', 1, Len(assessments)) = assessments
             /\ Len(entries') = Len(entries) + 1
             /\ SubSeq(entries', 1, Len(entries)) = entries
             /\ entries'[Len(entries')].action = "assess"
             /\ entries'[Len(entries')].assessment_id = Len(assessments')
             /\ entries'[Len(entries')].risk_level
                    = assessments'[Len(assessments')].risk_level
             /\ last'.pid = Len(assessments')
             /\ plans' = plans
             /\ approvals' = approvals]_vars

\* An assessment made through the tool while a plan and its approval are
\* stored.
C30_Witness ==
    /\ last.op = "governor_assess"
    /\ Len(plans) = 1
    /\ Len(approvals) = 1
    /\ Len(assessments) = 1
    /\ entries # <<>>
    /\ entries[Len(entries)].action = "assess"
    /\ entries[Len(entries)].risk_level = assessments[1].risk_level

\* The audit entry names what the tool call acted on: the assessment of
\* governor_assess and of an assessment's approval, the plan of create_plan,
\* of a plan's approval and of abort, the plan and the step of a step's
\* approval and of execute_step.
LinkedTo(entry, call) ==
    CASE call.op \in {"governor_assess", "governor_approve_assessment"} ->
             entry.assessment_id = call.pid
      [] call.op \in {"governor_create_plan", "governor_approve_plan", "governor_abort"} ->
             entry.plan_id = call.pid
      [] call.op = "governor_approve_step" ->
             entry.plan_id = call.sid[1] /\ entry.step_id = call.sid
      [] call.op = "governor_execute_step" ->
             entry.plan_id = call.pid /\ entry.step_id = call.sid
      [] OTHER -> FALSE

\* C31: every tool call that changes an assessment, a plan, a step or an
\* approval appends at least one audit entry within the call, an entry of this
\* call names the assessment, plan or step acted on, and the earlier entries
\* stay; a tool call that returns an error appends none.
C31_AuditPerToolCall ==
    [][/\ <<assessments, plans, approvals>>' # <<assessments, plans, approvals>>
          => /\ Len(entries') > Len(entries)
             /\ SubSeq(entries', 1, Len(entries)) = entries
             /\ \E i \in Len(entries) + 1 .. Len(entries') : LinkedTo(entries'[i], last')
       /\ last'.ret = "error" => entries' = entries]_vars

\* A skip through the tool has just logged its entry for the step.
C31_Witness ==
    /\ last.op = "governor_execute_step"
    /\ last.arg = "skip"
    /\ last.ret = "ok"
    /\ plans[last.pid].steps[last.sid[2]].status = "skipped"
    /\ entries # <<>>
    /\ entries[Len(entries)].action = "skip_step"
    /\ entries[Len(entries)].step_id = last.sid

\* A tool call has answered with an error after entries were logged.
C31_WitnessError ==
    /\ last.ret = "error"
    /\ last.op \in {"governor_approve_step", "governor_execute_step", "governor_create_plan"}
    /\ entries # <<>>

\* C32: a governor_execute_step call that runs the step (no skip, no error)
\* answers with the detector's report on the step as it was planned, and ends
\* with the step failed and the plan failed exactly when that report's
\* severity is critical; otherwise the step is completed, and the plan is
\* completed when no step is left unfinished and keeps its status when one
\* is.  After any call of the tool no step is in executing.
C32_ExecuteFinalizes ==
    [][last'.op = "governor_execute_step"
       => /\ \A p \in DOMAIN plans' : \A i \in DOMAIN plans'[p].steps :
                 plans'[p].steps[i].status # "executing"
          /\ last'.ret = "ok" /\ last'.arg = ""
             => LET p == last'.pid
                    i == last'.sid[2]
                    planned == plans[p].steps[i]
                    report == detect(planned,
                                     IF last'.args.actual_operation = <<>>
                                     THEN planned.operation
                                     ELSE last'.args.actual_operation,
                                     last'.args.actual_outcome)
                    step == plans'[p].steps[i]
                IN  /\ last'.out = report
                    /\ report.severity = "critical"
                       <=> step.status = "failed" /\ plans'[p].status = "failed"
                    /\ report.severity # "critical"
                       => /\ step.status = "completed"
                          /\ IF all_completed(plans'[p])
                             THEN plans'[p].status = "completed"
                             ELSE plans'[p].status = plans[p].status]_vars

\* The second step of an approved plan has run with a major deviation after
\* the first was completed: the step and the plan are completed.
C32_Witness ==
    /\ last.op = "governor_execute_step"
    /\ last.ret = "ok"
    /\ last.arg = ""
    /\ last.out.severity = "major"
    /\ last.sid[2] = 2
    /\ plans[last.pid].steps[1].status = "completed"
    /\ plans[last.pid].steps[2].status = "completed"
    /\ plans[last.pid].status = "completed"

\* A step has run with a critical deviation: the step and the plan are failed.
C32_WitnessCritical ==
    /\ last.op = "governor_execute_step"
    /\ last.ret = "ok"
    /\ last.arg = ""
    /\ last.out.severity = "critical"
    /\ plans[last.pid].steps[last.sid[2]].status = "failed"
    /\ plans[last.pid].status = "failed"

\* The rank of a severity in the order none < minor < major < critical.
SeverityRank(s) ==
    CASE s = "none" -> 0 [] s = "minor" -> 1 [] s = "major" -> 2 [] s = "critical" -> 3

\* The severity of the highest rank among the findings; none without findings.
Highest(findings) ==
    IF findings = <<>> THEN "none"
    ELSE CHOOSE s \in {findings[i] : i \in DOMAIN findings} :
             \A i \in DOMAIN findings : SeverityRank(findings[i]) <= SeverityRank(s)

\* C33: the overall severity is the severity of the highest rank among the
\* findings in the order none < minor < major < critical, it is none exactly
\* when there are no findings, and has_deviation of a report is true exactly
\* when its severity is not none.
C33_OverallSeverity ==
    /\ last.op = "_calculate_severity"
       => /\ last.out = Highest(last.args)
          /\ last.out = "none" <=> last.args = <<>>
    /\ last.op = "detect"
       => LET report == last.out.report
              findings == last.out.operation \o last.out.outcome
          IN  /\ report.deviations = findings
              /\ report.severity = Highest(findings)
              /\ report.severity = "none" <=> findings = <<>>
              /\ report.has_deviation <=> report.severity # "none"

\* A list of findings whose most severe one is not the last.
C33_Witness ==
    /\ last.op = "_calculate_severity"
    /\ last.args = <<"minor", "critical", "major">>
    /\ last.out = "critical"

\* A report of two findings, the operation's major and the outcome's critical.
C33_WitnessReport ==
    /\ last.op = "detect"
    /\ last.out.report.deviations = <<"major", "critical">>
    /\ last.out.report.severity = "critical"
    /\ last.out.report.has_deviation

\* A report without findings.
C33_WitnessNone ==
    /\ last.op = "detect"
    /\ last.args.planned # last.args.actual_operation
    /\ last.out.report.deviations = <<>>
    /\ last.out.report.severity = "none"
    /\ ~last.out.report.has_deviation

\* The keyword classes of which the lower-cased text contains a keyword.
KeywordClasses(operation) ==
    LET operation_lower == Lower(operation)
    IN  {c \in {"execute", "delete", "write", "read"} :
            ContainsAny(operation_lower,
                        CASE c = "execute" -> EXECUTE_KEYWORDS
                          [] c = "delete" -> DELETE_KEYWORDS
                          [] c = "write" -> WRITE_KEYWORDS
                          [] c = "read" -> READ_KEYWORDS)}

\* C34: for an operation that matches no read-only pattern, classify_action
\* returns the most severe of the keyword classes found in the text, in the
\* order execute (3.0) > delete (2.5) > write (1.5) > read (0.5), with that
\* class's multiplier, and write (1.5) when the text holds no keyword at all.
\* Multipliers are counted in halves.
C34_MostSevereKeywordClass ==
    last.op = "classify" /\ ~matches_any_pattern(last.text, READ_ONLY_PATTERNS)
    => LET classes == KeywordClasses(last.text)
           severity == [execute |-> 6, delete |-> 5, write |-> 3, read |-> 1]
           expected == IF classes = {} THEN "write"
                       ELSE CHOOSE c \in classes :
                                \A d \in classes : severity[d] <= severity[c]
       IN  last.out.action = <<expected, severity[expected]>>

\* "Run rm" holds an execute and a delete keyword and is classified execute.
C34_Witness ==
    /\ last.op = "classify"
    /\ ~matches_any_pattern(last.text, READ_ONLY_PATTERNS)
    /\ {"execute", "delete"} \subseteq KeywordClasses(last.text)
    /\ last.out.action = <<"execute", 6>>

\* A text without any keyword is classified write.
C34_WitnessDefault ==
    /\ last.op = "classify"
    /\ ~matches_any_pattern(last.text, READ_ONLY_PATTERNS)
    /\ KeywordClasses(last.text) = {}
    /\ last.out.action = <<"write", 3>>

\* A text with a write and a read keyword only is classified write, and one
\* with read keywords only is classified read.
C34_WitnessWriteOverRead ==
    /\ last.op = "classify"
    /\ ~matches_any_pattern(last.text, READ_ONLY_PATTERNS)
    /\ KeywordClasses(last.text) = {"write", "read"}
    /\ last.out.action = <<"write", 3>>

\* C35: in every reachable state a plan whose status is completed has every
\* step in status completed or skipped.
C35_CompletedPlanHasFinishedSteps ==
    \A p \in DOMAIN plans :
        plans[p].status = "completed"
        => \A i \in DOMAIN plans[p].steps :
               plans[p].steps[i].status \in {"completed", "skipped"}

\* C36: after a governor_execute_step call (a skip included) on a plan in
\* progress, when every step of the plan is completed or skipped, the plan's
\* status is completed.
C36_FinishedPlanIsCompleted ==
    [][/\ last'.op = "governor_execute_step"
       /\ last'.ret = "ok"
       /\ plans[last'.pid].status = "in_progress"
       /\ all_completed(plans'[last'.pid])
       => plans'[last'.pid].status = "completed"]_vars

\* The approval decisions stored for a plan, in the order they were made.
PlanDecisions(p) ==
    LET OfPlan(a) == a.target_type = "plan" /\ a.target_id = TargetId(p)
    IN  SelectSeq(approvals, OfPlan)

\* C37: in every reachable state the stored approvals agree with the plan's
\* status: a plan that is in progress is approved according to is_approved,
\* and a plan whose last approval decision was a denial is not, also when an
\* approval and a denial carry the same timestamp.
C37_ApprovalsAgreeWithStatus ==
    \A p \in DOMAIN plans :
        /\ plans[p].status = "in_progress"
           => IsApproved(approvals, "plan", TargetId(p))
        /\ PlanDecisions(p) # <<>> /\ ~PlanDecisions(p)[Len(PlanDecisions(p))].approved
           => ~IsApproved(approvals, "plan", TargetId(p))

\* Next to C37: the approvals agree with the plan's status in every state
\* where the decisions on the plan carry increasing timestamps.
C37_WithIncreasingTimestamps ==
    \A p \in DOMAIN plans :
        (\A i \in 1 .. Len(PlanDecisions(p)) - 1 :
             PlanDecisions(p)[i].timestamp < PlanDecisions(p)[i + 1].timestamp)
        => /\ plans[p].status = "in_progress"
              => IsApproved(approvals, "plan", TargetId(p))
           /\ PlanDecisions(p) # <<>> /\ ~PlanDecisions(p)[Len(PlanDecisions(p))].approved
              => ~IsApproved(approvals, "plan", TargetId(p))

\* An approval after a denial of the same plan, at a later time.
C37_WitnessIncreasing ==
    /\ Len(PlanDecisions(1)) = 2
    /\ ~PlanDecisions(1)[1].approved
    /\ PlanDecisions(1)[2].approved
    /\ PlanDecisions(1)[1].timestamp < PlanDecisions(1)[2].timestamp
    /\ plans[1].status = "in_progress"

\* C38: no operation changes a plan's current_step_index: it is 0 when the
\* plan is created and stays 0, so get_plan_status reports the plan's first
\* step as the current step (None for a plan without steps), whatever the
\* steps' statuses are.
C38_CurrentStepIndexStaysZero ==
    [][/\ \A p \in DOMAIN plans' : plans'[p].current_step_index = 0
       /\ last'.op = "get_plan_status" /\ last'.ret = "ok"
          => last'.out[1].current_step =
                 IF plans[last'.pid].steps = <<>> THEN None
                 ELSE Some(plans[last'.pid].steps[1])]_vars

\* The status of a plan is asked for after its first step was completed and
\* while the second is not: the current step reported is the completed one.
C38_Witness ==
    /\ last.op = "get_plan_status"
    /\ last.ret = "ok"
    /\ Len(plans[last.pid].steps) = 2
    /\ plans[last.pid].steps[1].status = "completed"
    /\ plans[last.pid].steps[2].status \in {"pending", "approved", "executing"}
    /\ last.out[1].current_step = Some(plans[last.pid].steps[1])
    /\ plans[last.pid].current_step_index = 0

\* C39: when complete_step calls for two different steps of one plan in
\* progress have run with their sub-steps interleaved in any order and have
\* returned, and every other step of the plan is completed or skipped, both
\* steps are completed and the plan's status is completed.
C39_CompletionNeverLost ==
    \A c, d \in DOMAIN calls :
        /\ \A e \in DOMAIN calls : calls[e].pc = "done"
        /\ calls[c].plan_id = calls[d].plan_id
        /\ calls[c].step_id # calls[d].step_id
        /\ HasStep(plans, calls[c].plan_id, calls[c].step_id)
        /\ HasStep(plans, calls[d].plan_id, calls[d].step_id)
        /\ \A i \in DOMAIN plans[calls[c].plan_id].steps :
               i \notin {calls[c].step_id[2], calls[d].step_id[2]}
               => plans[calls[c].plan_id].steps[i].status \in Finished
        => /\ plans[calls[c].plan_id].steps[calls[c].step_id[2]].status = "completed"
           /\ plans[calls[d].plan_id].steps[calls[d].step_id[2]].status = "completed"
           /\ plans[calls[c].plan_id].status = "completed"

\* Two calls on the two steps of a plan have returned, the first of them
\* without completing the plan: its scan met the other step before that step
\* was written.
C39_Witness ==
    /\ Len(calls) = 2
    /\ calls[1].pc = "done"
    /\ calls[2].pc = "done"
    /\ calls[1].step_id # calls[2].step_id
    /\ HasStep(plans, 1, calls[1].step_id)
    /\ HasStep(plans, 1, calls[2].step_id)
    /\ ~calls[1].all_completed
    /\ calls[2].all_completed
    /\ plans[1].status = "completed"

\* Both calls found every step finished and both set the plan's status.
C39_WitnessBothSet ==
    /\ Len(calls) = 2
    /\ calls[1].pc = "done"
    /\ calls[2].pc = "done"
    /\ calls[1].step_id # calls[2].step_id
    /\ calls[1].all_completed
    /\ calls[2].all_completed
    /\ plans[1].status = "completed"

====
